---- MODULE Spec2Model ----
(***************************************************************************)
(* A model of sqlalchemy_datastore/datastore_dbapi.py: the DB-API cursor   *)
(* over Google Datastore (statement classification, GQL translation,       *)
(* remote execution with client-side fallback, aggregation, DML).          *)
(*                                                                         *)
(* Text is modelled as a sequence of one-character strings, so that the    *)
(* regular expressions and string scans of the source are computed         *)
(* character by character.  A Python value is a record [t, n, s]: its      *)
(* type tag, its number (doubles are held in tenths) and its text.         *)
(***************************************************************************)
EXTENDS Integers, Sequences, FiniteSets, TLC

(***************************************************************************)
(* Characters                                                              *)
(***************************************************************************)
LowerChars ==
    <<"a","b","c","d","e","f","g","h","i","j","k","l","m",
      "n","o","p","q","r","s","t","u","v","w","x","y","z">>

UpperChars ==
    <<"A","B","C","D","E","F","G","H","I","J","K","L","M",
      "N","O","P","Q","R","S","T","U","V","W","X","Y","Z">>

DigitChars == <<"0","1","2","3","4","5","6","7","8","9">>

\* printable ASCII in code-point order (str < str compares code points);
\* the double quote, the backslash and the backquote are left out
AsciiOrder ==
    <<" ","!","#","$","%","&","'","(",")","*","+",",","-",".","/">>
    \o DigitChars \o <<":",";","<","=",">","?","@">>
    \o UpperChars \o <<"[","]","^","_">>
    \o LowerChars \o <<"{","|","}","~">>

Range(f) == {f[i] : i \in DOMAIN f}

IsDigit(c) == c \in Range(DigitChars)

\* \w of the re module
IsWordChar(c) == c \in (Range(LowerChars) \cup Range(UpperChars) \cup Range(DigitChars) \cup {"_"})

\* \s of the re module
IsSpace(c) == c \in {" ", "\t", "\n", "\r"}

IndexIn(seq, c) == CHOOSE i \in DOMAIN seq : seq[i] = c

\* str.upper() on one character
ToUpper(c) == IF c \in Range(LowerChars) THEN UpperChars[IndexIn(LowerChars, c)] ELSE c

Upper(s) == [i \in DOMAIN s |-> ToUpper(s[i])]

DigitVal(c) == IndexIn(DigitChars, c) - 1

CharCode(c) == IndexIn(AsciiOrder, c)

Min(a, b) == IF a < b THEN a ELSE b

Max(a, b) == IF a > b THEN a ELSE b

(***************************************************************************)
(* Text helpers: str.strip, slices, str.find, re fragments                 *)
(***************************************************************************)
\* s[i:] of Python with a 1-based index
From(s, i) == SubSeq(s, i, Len(s))

Strip(s) ==
    LET keep == {i \in 1..Len(s) : ~IsSpace(s[i])}
    IN  IF keep = {} THEN <<>>
        ELSE SubSeq(s, CHOOSE i \in keep : \A j \in keep : i <= j,
                       CHOOSE i \in keep : \A j \in keep : i >= j)

\* s starts, at index i, with the text kw (exact case)
TextAt(s, i, kw) ==
    /\ i >= 1
    /\ i + Len(kw) - 1 <= Len(s)
    /\ \A k \in 1..Len(kw) : s[i + k - 1] = kw[k]

\* the same under re.IGNORECASE / on the upper-cased text (kw is upper case)
KwAt(s, i, kw) ==
    /\ i >= 1
    /\ i + Len(kw) - 1 <= Len(s)
    /\ \A k \in 1..Len(kw) : ToUpper(s[i + k - 1]) = kw[k]

\* str.find on the upper-cased text: first index >= start, 0 when absent
FindFrom(s, kw, start) ==
    LET hits == {i \in start..Len(s) : KwAt(s, i, kw)}
    IN  IF hits = {} THEN 0 ELSE CHOOSE i \in hits : \A j \in hits : i <= j

Find(s, kw) == FindFrom(s, kw, 1)

\* index after the longest run of white space starting at i (\s*)
RECURSIVE SkipWs(_, _)
SkipWs(s, i) == IF i <= Len(s) /\ IsSpace(s[i]) THEN SkipWs(s, i + 1) ELSE i

\* index after the longest run of word characters starting at i (\w*)
RECURSIVE SkipWord(_, _)
SkipWord(s, i) == IF i <= Len(s) /\ IsWordChar(s[i]) THEN SkipWord(s, i + 1) ELSE i

\* index after the longest run of digits starting at i (\d*)
RECURSIVE SkipDigits(_, _)
SkipDigits(s, i) == IF i <= Len(s) /\ IsDigit(s[i]) THEN SkipDigits(s, i + 1) ELSE i

\* first index >= i holding the character c, Len(s)+1 when there is none
RECURSIVE SkipTo(_, _, _)
SkipTo(s, i, c) == IF i <= Len(s) /\ s[i] # c THEN SkipTo(s, i + 1, c) ELSE i

\* \bKW\b found somewhere in s (re.search, IGNORECASE); KW is made of word characters
SearchWord(s, kw) ==
    \E i \in 1..Len(s) :
        /\ KwAt(s, i, kw)
        /\ (i = 1 \/ ~IsWordChar(s[i - 1]))
        /\ (i + Len(kw) > Len(s) \/ ~IsWordChar(s[i + Len(kw)]))

\* the decimal text of a natural number (str(n))
RECURSIVE NatText(_)
NatText(n) == IF n < 10 THEN <<DigitChars[n + 1]>>
              ELSE Append(NatText(n \div 10), DigitChars[(n % 10) + 1])

\* the number written by a run of digits (int of a digit string)
RECURSIVE DigitsVal(_)
DigitsVal(d) == IF d = <<>> THEN 0
                ELSE DigitsVal(SubSeq(d, 1, Len(d) - 1)) * 10 + DigitVal(d[Len(d)])

(***************************************************************************)
(* Python values                                                           *)
(***************************************************************************)
NoneV == [t |-> "none", n |-> 0, s |-> <<>>]

BoolV(b) == [t |-> "bool", n |-> IF b THEN 1 ELSE 0, s |-> <<>>]

IntV(i) == [t |-> "int", n |-> i, s |-> <<>>]

\* a double, held in tenths: FloatV(25) is 2.5
FloatV(tenths) == [t |-> "float", n |-> tenths, s |-> <<>>]

StrV(txt) == [t |-> "str", n |-> 0, s |-> txt]

BytesV(txt) == [t |-> "bytes", n |-> 0, s |-> txt]

\* a key path [{kind, id}] of one element with a numeric id
KeyV(id) == [t |-> "key", n |-> id, s |-> <<>>]

\* the outcome of an expression that raised
ErrV == [t |-> "error", n |-> 0, s |-> <<>>]

\* bool is a subclass of int; int and float compare by numeric value
IsNum(v) == v.t \in {"bool", "int", "float"}

Tenths(v) == IF v.t = "float" THEN v.n ELSE v.n * 10

\* a == b of Python
PyEq(a, b) ==
    IF IsNum(a) /\ IsNum(b) THEN Tenths(a) = Tenths(b)
    ELSE a.t = b.t /\ a.n = b.n /\ a.s = b.s

RECURSIVE TextCmp(_, _)
TextCmp(a, b) ==
    IF a = <<>> /\ b = <<>> THEN "eq"
    ELSE IF a = <<>> THEN "lt"
    ELSE IF b = <<>> THEN "gt"
    ELSE IF CharCode(Head(a)) < CharCode(Head(b)) THEN "lt"
    ELSE IF CharCode(Head(a)) > CharCode(Head(b)) THEN "gt"
    ELSE TextCmp(Tail(a), Tail(b))

\* the ordering of a and b under <, >, <=, >=: "lt", "eq", "gt", or "TypeError"
PyCmp(a, b) ==
    IF IsNum(a) /\ IsNum(b)
    THEN IF Tenths(a) < Tenths(b) THEN "lt"
         ELSE IF Tenths(a) > Tenths(b) THEN "gt" ELSE "eq"
    ELSE IF a.t = b.t /\ a.t \in {"str", "bytes"} THEN TextCmp(a.s, b.s)
    ELSE IF a.t = "datetime" /\ b.t = "datetime" /\ Len(a.s) = Len(b.s)
    THEN IF a.s # b.s THEN TextCmp(a.s, b.s)
         ELSE IF a.n < b.n THEN "lt" ELSE IF a.n > b.n THEN "gt" ELSE "eq"
    ELSE "TypeError"

(***************************************************************************)
(* Cursor._parse_literal                                                   *)
(***************************************************************************)
AllDigits(d) == \A i \in 1..Len(d) : IsDigit(d[i])

\* int(text): an optional sign and digits; ErrV stands for ValueError
PyInt(lit) ==
    LET signed == lit # <<>> /\ lit[1] \in {"+", "-"}
        d == IF signed THEN Tail(lit) ELSE lit
    IN  IF d # <<>> /\ AllDigits(d)
        THEN IntV(IF signed /\ lit[1] = "-" THEN 0 - DigitsVal(d) ELSE DigitsVal(d))
        ELSE ErrV

\* float(text) of a text holding "."; the value keeps the first fractional digit
PyFloat(lit) ==
    LET signed == lit # <<>> /\ lit[1] \in {"+", "-"}
        d == IF signed THEN Tail(lit) ELSE lit
        dot == SkipTo(d, 1, ".")
        ip == SubSeq(d, 1, dot - 1)
        fp == SubSeq(d, dot + 1, Len(d))
        mag == DigitsVal(ip) * 10 + (IF fp = <<>> THEN 0 ELSE DigitVal(fp[1]))
    IN  IF dot <= Len(d) /\ AllDigits(ip) /\ AllDigits(fp) /\ (ip # <<>> \/ fp # <<>>)
        THEN FloatV(IF signed /\ lit[1] = "-" THEN 0 - mag ELSE mag)
        ELSE ErrV

\* str.replace("Z", "+00:00")
RECURSIVE ReplaceZ(_)
ReplaceZ(ts) ==
    IF ts = <<>> THEN <<>>
    ELSE (IF Head(ts) = "Z" THEN <<"+","0","0",":","0","0">> ELSE <<Head(ts)>>)
         \o ReplaceZ(Tail(ts))

\* \d{4}-\d{2}-\d{2}T\d{2}:\d{2}:\d{2} at the start of ts
IsoSecondsAt(ts) ==
    /\ Len(ts) >= 19
    /\ \A i \in {1,2,3,4,6,7,9,10,12,13,15,16,18,19} : IsDigit(ts[i])
    /\ ts[5] = "-" /\ ts[8] = "-" /\ ts[11] = "T" /\ ts[14] = ":" /\ ts[17] = ":"

\* text.ljust(6, "0")
RECURSIVE Ljust6(_)
Ljust6(d) == IF Len(d) >= 6 THEN d ELSE Ljust6(Append(d, "0"))

\* the mutation of the normalisation that truncates the fraction to six
\* digits and pads nothing
TruncatedFraction(ts) ==
    LET e == SkipDigits(ts, 21)
    IN  IF IsoSecondsAt(ts) /\ Len(ts) >= 21 /\ ts[20] = "." /\ e > 21
        THEN SubSeq(ts, 1, 20) \o SubSeq(ts, 21, Min(e - 1, 26)) \o From(ts, e)
        ELSE ts

\* the fraction of a timestamp text brought to six digits (lines 1186-1194)
NormalizeFraction(ts) ==
    LET e == SkipDigits(ts, 21)
    IN  IF IsoSecondsAt(ts) /\ Len(ts) >= 21 /\ ts[20] = "." /\ e > 21
        THEN SubSeq(ts, 1, 20)
             \o Ljust6(SubSeq(ts, 21, Min(e - 1, 26)))
             \o From(ts, e)
        ELSE ts

\* datetime.fromisoformat: seconds, an optional six-digit fraction, an optional
\* +HH:MM offset; the value keeps the microsecond in n and the rest in s
FromIsoFormat(ts) ==
    LET hasFrac == Len(ts) >= 26 /\ ts[20] = "." /\ AllDigits(SubSeq(ts, 21, 26))
        rest == IF hasFrac THEN From(ts, 27) ELSE From(ts, 20)
        tzOk == \/ rest = <<>>
                \/ /\ Len(rest) = 6
                   /\ rest[1] \in {"+", "-"}
                   /\ AllDigits(<<rest[2], rest[3], rest[5], rest[6]>>)
                   /\ rest[4] = ":"
    IN  IF IsoSecondsAt(ts) /\ tzOk
        THEN [t |-> "datetime",
              n |-> IF hasFrac THEN DigitsVal(SubSeq(ts, 21, 26)) ELSE 0,
              s |-> SubSeq(ts, 1, 19) \o rest]
        ELSE ErrV

\* DATETIME\s*\(\s*'([^']*)'\s*\) at the start of lit (re.match, IGNORECASE):
\* whether it matches, and the quoted text
DatetimeArg(lit) ==
    LET a == SkipWs(lit, 9)
        b == SkipWs(lit, a + 1)
        q == SkipTo(lit, b + 1, "'")
        c == SkipWs(lit, q + 1)
    IN  IF /\ KwAt(lit, 1, <<"D","A","T","E","T","I","M","E">>)
           /\ TextAt(lit, a, <<"(">>)
           /\ TextAt(lit, b, <<"'">>)
           /\ q <= Len(lit)
           /\ TextAt(lit, c, <<")">>)
        THEN [ok |-> TRUE, arg |-> SubSeq(lit, b + 1, q - 1)]
        ELSE [ok |-> FALSE, arg |-> <<>>]

EndsWith(s, c) == s # <<>> /\ s[Len(s)] = c

StartsWith(s, c) == s # <<>> /\ s[1] = c

\* the numeric branch of Cursor._parse_literal: float(literal) when the text
\* holds a ".", int(literal) otherwise
LiteralNumber(lit) ==
    IF \E i \in 1..Len(lit) : lit[i] = "." THEN PyFloat(lit) ELSE PyInt(lit)

\* the branches of Cursor._parse_literal on the stripped text, given the
\* DATETIME match dt, the upper-cased text up and the numeric reading num
LiteralValue(lit, dt, up, num) ==
    IF dt.ok
    THEN FromIsoFormat(NormalizeFraction(IF EndsWith(dt.arg, "Z")
                                         THEN ReplaceZ(dt.arg) ELSE dt.arg))
    ELSE IF \/ StartsWith(lit, "'") /\ EndsWith(lit, "'")
            \/ StartsWith(lit, "\"") /\ EndsWith(lit, "\"")
    THEN StrV(SubSeq(lit, 2, Len(lit) - 1))
    ELSE IF up = <<"T","R","U","E">> THEN BoolV(TRUE)
    ELSE IF up = <<"F","A","L","S","E">> THEN BoolV(FALSE)
    ELSE IF up = <<"N","U","L","L">> THEN NoneV
    ELSE IF num = ErrV THEN StrV(lit)
    ELSE num

\* Cursor._parse_literal on a stripped text
ParseStripped(lit) == LiteralValue(lit, DatetimeArg(lit), Upper(lit), LiteralNumber(lit))

\* Cursor._parse_literal: the Python value of a literal text (ErrV if it raises)
ParseLiteral(literal) == ParseStripped(Strip(literal))

\* str.split(","), each piece stripped and parsed (Cursor._parse_value_list)
RECURSIVE ParseValueList(_)
ParseValueList(txt) ==
    LET c == SkipTo(txt, 1, ",")
    IN  IF c > Len(txt) THEN <<ParseLiteral(txt)>>
        ELSE <<ParseLiteral(SubSeq(txt, 1, c - 1))>> \o ParseValueList(From(txt, c + 1))

(***************************************************************************)
(* Cursor._eval_simple_condition: one atom against one row.                *)
(* The result is "T", "F" or "E" (an exception left the function).         *)
(***************************************************************************)
\* context.get(field)
CtxGet(ctx, field) == IF field \in DOMAIN ctx THEN ctx[field] ELSE NoneV

B2R(b) == IF b THEN "T" ELSE "F"

\* v in values / v not in values (list membership uses ==)
InList(v, values) == \E i \in 1..Len(values) : PyEq(v, values[i])

HasErr(values) == \E i \in 1..Len(values) : values[i] = ErrV

\* (\w+)\s*OP\s*(.+) at the start of the condition
CmpMatch(c, op) ==
    LET w == SkipWord(c, 1)
        o == SkipWs(c, w)
    IN  [ok    |-> w > 1 /\ TextAt(c, o, op) /\ o + Len(op) <= Len(c),
         field |-> SubSeq(c, 1, w - 1),
         value |-> Strip(From(c, o + Len(op)))]

\* (\w+)\s+[NOT\s+]IN\s+(?:ARRAY\s*)?\(([^)]+)\) at the start of the condition
InMatch(c, negated) ==
    LET w == SkipWord(c, 1)
        a == SkipWs(c, w)
        n == IF negated THEN SkipWs(c, a + 3) ELSE a
        p == SkipWs(c, n + 2)
        r == IF KwAt(c, p, <<"A","R","R","A","Y">>) THEN SkipWs(c, p + 5) ELSE p
        close == SkipTo(c, r + 1, ")")
    IN  [ok    |-> /\ w > 1
                   /\ a > w
                   /\ negated => (KwAt(c, a, <<"N","O","T">>) /\ n > a + 3)
                   /\ KwAt(c, n, <<"I","N">>)
                   /\ p > n + 2
                   /\ TextAt(c, r, <<"(">>)
                   /\ close <= Len(c)
                   /\ close > r + 1,
         field |-> SubSeq(c, 1, w - 1),
         list  |-> SubSeq(c, r + 1, close - 1)]

\* (\w+)\s*OP\s*BLOB\s*\('(.*?)'\) at the start of the condition
BlobMatch(c, op) ==
    LET w == SkipWord(c, 1)
        o == SkipWs(c, w)
        b == SkipWs(c, o + Len(op))
        l == SkipWs(c, b + 4)
        ends == {j \in (l + 2)..Len(c) : TextAt(c, j, <<"'", ")">>)}
        e == IF ends = {} THEN 0 ELSE CHOOSE j \in ends : \A k \in ends : j <= k
    IN  [ok    |-> /\ w > 1
                   /\ TextAt(c, o, op)
                   /\ KwAt(c, b, <<"B","L","O","B">>)
                   /\ TextAt(c, l, <<"(", "'">>)
                   /\ e > 0,
         field |-> SubSeq(c, 1, w - 1),
         blob  |-> SubSeq(c, l + 2, e - 1)]

\* __key__\s*=\s*KEY\s*\(\s*\w+\s*,\s*(?:'([^']*)'|(\d+))\s*\) at the start
KeyMatch(c) ==
    LET o == SkipWs(c, 8)
        k == SkipWs(c, o + 1)
        l == SkipWs(c, k + 3)
        w == SkipWs(c, l + 1)
        we == SkipWord(c, w)
        cm == SkipWs(c, we)
        v == SkipWs(c, cm + 1)
        quoted == TextAt(c, v, <<"'">>)
        ve == IF quoted THEN SkipTo(c, v + 1, "'") + 1 ELSE SkipDigits(c, v)
        cl == SkipWs(c, ve)
    IN  [ok     |-> /\ KwAt(c, 1, <<"_","_","K","E","Y","_","_">>)
                    /\ TextAt(c, o, <<"=">>)
                    /\ KwAt(c, k, <<"K","E","Y">>)
                    /\ TextAt(c, l, <<"(">>)
                    /\ we > w
                    /\ TextAt(c, cm, <<",">>)
                    /\ IF quoted THEN ve <= Len(c) + 1 /\ TextAt(c, ve - 1, <<"'">>) /\ ve - 1 > v
                       ELSE ve > v
                    /\ TextAt(c, cl, <<")">>),
         quoted |-> quoted,
         text   |-> IF quoted THEN SubSeq(c, v + 1, ve - 2) ELSE SubSeq(c, v, ve - 1)]

\* an ordering comparison of the field value with the parsed literal: the
\* None guard, then the comparison with TypeError caught
OrderCompare(fv, value, accept) ==
    IF value = ErrV THEN "E"
    ELSE IF fv # NoneV /\ value # NoneV
    THEN B2R(PyCmp(fv, value) \in accept)
    ELSE "F"

\* an ordering atom (>=, <=, >, <)
OrderAtom(ctx, m, accept) ==
    OrderCompare(CtxGet(ctx, m.field), ParseLiteral(m.value), accept)

\* field_val == value, field_val != value with the parsed literal
EqualCompare(fv, value, negated) ==
    IF value = ErrV THEN "E" ELSE B2R(PyEq(fv, value) # negated)

\* an equality atom (=, !=, <>)
EqualAtom(ctx, m, negated) ==
    EqualCompare(CtxGet(ctx, m.field), ParseLiteral(m.value), negated)

\* field_val in values, field_val not in values with the parsed list
ListCompare(fv, values, negated) ==
    IF HasErr(values) THEN "E" ELSE B2R(InList(fv, values) # negated)

\* a membership atom (IN, NOT IN)
ListAtom(ctx, m, negated) ==
    ListCompare(CtxGet(ctx, m.field), ParseValueList(m.list), negated)

\* a BLOB atom: bytes compare with the literal, anything else is unequal
BlobAtom(fv, m, negated) ==
    IF fv.t = "bytes" THEN B2R((fv.s = m.blob) # negated) ELSE B2R(negated)

\* a __key__ = KEY(kind, id-or-name) atom against the key of the row
KeyCompare(keyv, km) ==
    IF keyv.t # "key" THEN "F"
    ELSE IF km.quoted THEN B2R(keyv.n = 0 /\ keyv.s = km.text)
    ELSE B2R(keyv.n > 0 /\ NatText(keyv.n) = km.text)

\* context.get("key") or context.get("__key__")
KeyOf(ctx, first) ==
    IF first # NoneV THEN first ELSE CtxGet(ctx, <<"_","_","k","e","y","_","_">>)

\* variant: an atom that matches none of the shapes excludes the row
FailClosedAtom == "F"

\* what an atom that matches none of the shapes evaluates to
\* ("# Default: include row", line 1163)
DefaultAtom == "T"

\* the comparison shapes, tried in the order of the code
SimpleShapes(ctx, c, km, beq, bne, nin, in, ne1, ne2, ge, le, gt, lt, eq) ==
    IF km.ok THEN KeyCompare(KeyOf(ctx, CtxGet(ctx, <<"k","e","y">>)), km)
    ELSE IF beq.ok THEN BlobAtom(CtxGet(ctx, beq.field), beq, FALSE)
    ELSE IF bne.ok THEN BlobAtom(CtxGet(ctx, bne.field), bne, TRUE)
    ELSE IF nin.ok THEN ListAtom(ctx, nin, TRUE)
    ELSE IF in.ok THEN ListAtom(ctx, in, FALSE)
    ELSE IF ne1.ok THEN EqualAtom(ctx, ne1, TRUE)
    ELSE IF ne2.ok THEN EqualAtom(ctx, ne2, TRUE)
    ELSE IF ge.ok THEN OrderAtom(ctx, ge, {"gt", "eq"})
    ELSE IF le.ok THEN OrderAtom(ctx, le, {"lt", "eq"})
    ELSE IF gt.ok THEN OrderAtom(ctx, gt, {"gt"})
    ELSE IF lt.ok THEN OrderAtom(ctx, lt, {"lt"})
    ELSE IF eq.ok THEN EqualAtom(ctx, eq, FALSE)
    ELSE DefaultAtom

\* the stripped condition against each regular expression
MatchShapes(ctx, c) ==
    SimpleShapes(ctx, c, KeyMatch(c), BlobMatch(c, <<"=">>), BlobMatch(c, <<"!", "=">>),
                 InMatch(c, TRUE), InMatch(c, FALSE),
                 CmpMatch(c, <<"!", "=">>), CmpMatch(c, <<"<", ">">>),
                 CmpMatch(c, <<">", "=">>), CmpMatch(c, <<"<", "=">>),
                 CmpMatch(c, <<">">>), CmpMatch(c, <<"<">>), CmpMatch(c, <<"=">>))

EvalSimpleCondition(ctx, condition) == MatchShapes(ctx, Strip(condition))

(***************************************************************************)
(* Cursor._split_on_operator, Cursor._eval_condition, Cursor._evaluate_where*)
(***************************************************************************)
\* pattern.match(condition[i:]) for \bOP\b: the slice starts at i, so the
\* leading \b is tested against the start of the slice, not against the
\* character before i
SliceMatch(s, i, op) ==
    /\ KwAt(s, i, op)
    /\ (i + Len(op) > Len(s) \/ ~IsWordChar(s[i + Len(op)]))

RECURSIVE SplitLoop(_, _, _, _, _, _)
SplitLoop(s, op, i, depth, current, parts) ==
    IF i > Len(s)
    THEN IF Strip(current) # <<>> THEN Append(parts, Strip(current)) ELSE parts
    ELSE IF s[i] = "("
    THEN SplitLoop(s, op, i + 1, depth + 1, Append(current, s[i]), parts)
    ELSE IF s[i] = ")"
    THEN SplitLoop(s, op, i + 1, depth - 1, Append(current, s[i]), parts)
    ELSE IF depth = 0 /\ SliceMatch(s, i, op)
    THEN SplitLoop(s, op, i + Len(op), depth, <<>>, Append(parts, Strip(current)))
    ELSE SplitLoop(s, op, i + 1, depth, Append(current, s[i]), parts)

SplitOnOperator(condition, op) == SplitLoop(condition, op, 1, 0, <<>>, <<>>)

\* the index of the first ")" that brings the depth back to 0, 0 when none does
FirstClose(c) ==
    LET depth(i) == Cardinality({j \in 1..i : c[j] = "("})
                    - Cardinality({j \in 1..i : c[j] = ")"})
        hits == {i \in 1..Len(c) : c[i] = ")" /\ depth(i) = 0}
    IN  IF hits = {} THEN 0 ELSE CHOOSE i \in hits : \A j \in hits : i <= j

OR == <<"O", "R">>

AND == <<"A", "N", "D">>

RECURSIVE EvalCondition(_, _)
\* any(...) over the parts, left to right, stopping at the first true one
RECURSIVE AnyPart(_, _, _)
AnyPart(ctx, parts, i) ==
    IF i > Len(parts) THEN "F"
    ELSE LET r == EvalCondition(ctx, parts[i])
         IN  IF r = "F" THEN AnyPart(ctx, parts, i + 1) ELSE r

\* all(...) over the parts, left to right, stopping at the first false one
RECURSIVE AllParts(_, _, _)
AllParts(ctx, parts, i) ==
    IF i > Len(parts) THEN "T"
    ELSE LET r == EvalCondition(ctx, parts[i])
         IN  IF r = "T" THEN AllParts(ctx, parts, i + 1) ELSE r

EvalCondition(ctx, condition) ==
    LET c == Strip(condition)
        orParts == SplitOnOperator(c, OR)
        andParts == SplitOnOperator(c, AND)
    IN  IF StartsWith(c, "(") /\ EndsWith(c, ")") /\ FirstClose(c) = Len(c)
        THEN EvalCondition(ctx, SubSeq(c, 2, Len(c) - 1))
        ELSE IF SearchWord(c, OR) /\ Len(orParts) > 1
        THEN AnyPart(ctx, orParts, 1)
        ELSE IF SearchWord(c, AND) /\ Len(andParts) > 1
        THEN AllParts(ctx, andParts, 1)
        ELSE EvalSimpleCondition(ctx, c)

\* the context dict built from a row: {name: row[i]} (a later duplicate wins)
RowContext(row, fieldNames) ==
    LET idx == {i \in 1..Len(fieldNames) : i <= Len(row)}
    IN  [f \in {fieldNames[i] : i \in idx} |->
            row[CHOOSE i \in idx : fieldNames[i] = f
                                   /\ \A j \in idx : fieldNames[j] = f => j <= i]]

\* Cursor._evaluate_where: an exception excludes the row
EvaluateWhere(row, fieldNames, whereClause) ==
    EvalCondition(RowContext(row, fieldNames), whereClause) = "T"

(***************************************************************************)
(* Statement text scans of the fallback engine                             *)
(***************************************************************************)
WHERE_ == <<" ","W","H","E","R","E"," ">>

ORDER_BY_ == <<" ","O","R","D","E","R"," ","B","Y"," ">>

LIMIT_ == <<" ","L","I","M","I","T"," ">>

OFFSET_ == <<" ","O","F","F","S","E","T"," ">>

SELECT_STAR_FROM == <<"S","E","L","E","C","T"," ","*"," ","F","R","O","M"," ">>

\* the end of a clause that starts at `start`: the first of the given clause
\* keywords found from there on, Len(s)+1 when none is
ClauseEnd(s, start, patterns) ==
    LET hits == {FindFrom(s, patterns[k], start) : k \in DOMAIN patterns} \ {0}
    IN  IF hits = {} THEN Len(s) + 1 ELSE CHOOSE i \in hits : \A j \in hits : i <= j

\* the text of the WHERE clause (statement[where_idx + 7 : end_idx].strip())
WhereClause(s) ==
    LET w == Find(s, WHERE_)
    IN  Strip(SubSeq(s, w + 7, ClauseEnd(s, w, <<ORDER_BY_, LIMIT_, OFFSET_>>) - 1))

\* Cursor._apply_client_side_filter
ApplyClientSideFilter(rows, fieldNames, statement) ==
    IF Find(statement, WHERE_) = 0 THEN rows
    ELSE SelectSeq(rows, LAMBDA row : EvaluateWhere(row, fieldNames, WhereClause(statement)))

\* Cursor._extract_base_query_for_filter: the statement without its WHERE
\* clause; ORDER BY, LIMIT and OFFSET stay in the text
ExtractBaseQueryForFilter(s) ==
    LET w == Find(s, WHERE_)
    IN  IF w > 1
        THEN Strip(SubSeq(s, 1, w - 1)
                   \o From(s, ClauseEnd(s, w, <<ORDER_BY_, LIMIT_, OFFSET_>>)))
        ELSE s

\* \bKW\s+ ... : the indices where the word KW starts (re.search order)
WordStarts(s, kw) ==
    {i \in 1..Len(s) : KwAt(s, i, kw) /\ (i = 1 \/ ~IsWordChar(s[i - 1]))}

\* re.search(r"\bKW\s+(\d+)"): the digits of the first match, <<>> when none
FirstNumberAfter(s, kw) ==
    LET ok(i) == LET d == SkipWs(s, i + Len(kw))
                 IN  d > i + Len(kw) /\ SkipDigits(s, d) > d
        hits == {i \in WordStarts(s, kw) : ok(i)}
        i0 == CHOOSE i \in hits : \A j \in hits : i <= j
        d0 == SkipWs(s, i0 + Len(kw))
    IN  IF hits = {} THEN <<>> ELSE SubSeq(s, d0, SkipDigits(s, d0) - 1)

\* Cursor._parse_limit_offset_clause: limit is -1 for None
ParseLimitOffsetClause(s) ==
    LET l == FirstNumberAfter(s, <<"L","I","M","I","T">>)
        o == FirstNumberAfter(s, <<"O","F","F","S","E","T">>)
    IN  [limit  |-> IF l = <<>> THEN 0 - 1 ELSE DigitsVal(l),
         offset |-> IF o = <<>> THEN 0 ELSE DigitsVal(o)]

\* re.search(r"\bFROM\s+(\w+)"): the kind name, <<>> when there is none
TableName(s) ==
    LET kw == <<"F","R","O","M">>
        ok(i) == LET d == SkipWs(s, i + 4) IN d > i + 4 /\ SkipWord(s, d) > d
        hits == {i \in WordStarts(s, kw) : ok(i)}
        i0 == CHOOSE i \in hits : \A j \in hits : i <= j
        d0 == SkipWs(s, i0 + 4)
    IN  IF hits = {} THEN <<>> ELSE SubSeq(s, d0, SkipWord(s, d0) - 1)

\* Cursor._extract_table_only_query (<<>> stands for ProgrammingError)
ExtractTableOnlyQuery(s) ==
    IF TableName(s) = <<>> THEN <<>> ELSE SELECT_STAR_FROM \o TableName(s)

\* str.split(sep) for a one-character separator
RECURSIVE SplitChar(_, _)
SplitChar(txt, sep) ==
    LET c == SkipTo(txt, 1, sep)
    IN  IF c > Len(txt) THEN <<txt>>
        ELSE <<SubSeq(txt, 1, c - 1)>> \o SplitChar(From(txt, c + 1), sep)

\* str.split(): the white-space separated words of a text
RECURSIVE Words(_)
Words(txt) ==
    LET a == SkipWs(txt, 1)
        b == CHOOSE j \in a..(Len(txt) + 1) :
                /\ (j = Len(txt) + 1 \/ IsSpace(txt[j]))
                /\ \A k \in a..(j - 1) : ~IsSpace(txt[k])
    IN  IF a > Len(txt) THEN <<>>
        ELSE <<SubSeq(txt, a, b - 1)>> \o Words(From(txt, b))

\* Cursor._parse_order_by_clause: the list of [col, asc]
ParseOrderByClause(s) ==
    LET o == Find(s, ORDER_BY_)
        clause == Strip(SubSeq(s, o + 10, ClauseEnd(s, o + 10, <<LIMIT_, OFFSET_>>) - 1))
        parts == SplitChar(clause, ",")
        key(part) == LET w == Words(part)
                     IN  [col |-> w[1],
                          asc |-> ~(Len(w) > 1 /\ Upper(w[2]) = <<"D","E","S","C">>)]
        kept == SelectSeq(parts, LAMBDA part : Words(part) # <<>>)
    IN  IF o = 0 \/ clause = <<>> THEN <<>>
        ELSE [i \in 1..Len(kept) |-> key(kept[i])]

(***************************************************************************)
(* Entities on the wire and ParseEntity                                    *)
(* An entity is [id, props]; props maps a property name to a wire value    *)
(* [w, n, s]: the tag of the wire union, its number, its text.             *)
(***************************************************************************)
WInt(i) == [w |-> "integerValue", n |-> i, s |-> <<>>]

WDouble(tenths) == [w |-> "doubleValue", n |-> tenths, s |-> <<>>]

WStr(txt) == [w |-> "stringValue", n |-> 0, s |-> txt]

WBool(b) == [w |-> "booleanValue", n |-> IF b THEN 1 ELSE 0, s |-> <<>>]

WNull == [w |-> "nullValue", n |-> 0, s |-> <<>>]

\* ParseEntity.parse_properties: the Python value of a wire value
ParseProperties(wv) ==
    IF wv.w = "nullValue" THEN NoneV
    ELSE IF wv.w = "booleanValue" THEN BoolV(wv.n # 0)
    ELSE IF wv.w = "integerValue" THEN IntV(wv.n)
    ELSE IF wv.w = "doubleValue" THEN FloatV(wv.n)
    ELSE IF wv.w = "stringValue" THEN StrV(wv.s)
    ELSE NoneV

\* sorted(names): a set of texts in code-point order
RECURSIVE SortNames(_)
SortNames(S) ==
    IF S = {} THEN <<>>
    ELSE LET m == CHOOSE x \in S : \A y \in S : TextCmp(x, y) \in {"lt", "eq"}
         IN  <<m>> \o SortNames(S \ {m})

\* the keys of a dict filled in this order (a repeated key keeps its first place)
RECURSIVE Dedup(_)
Dedup(names) ==
    IF names = <<>> THEN <<>>
    ELSE LET front == Dedup(SubSeq(names, 1, Len(names) - 1))
             last == names[Len(names)]
         IN  IF \E i \in 1..Len(front) : front[i] = last THEN front
             ELSE Append(front, last)

KEY_FIELD == <<"k","e","y">>

\* col.lower() in ("__key__", "key")
IsKeyCol(col) == Upper(col) \in {<<"_","_","K","E","Y","_","_">>, <<"K","E","Y">>}

AllPropertyNames(data) == UNION {DOMAIN data[i].props : i \in 1..Len(data)}

\* ParseEntity.parse(data, selected_columns): [rows, fields]; selected = <<>>
\* stands for None.  fields holds the names of the field dict, in its order.
ParseEntity(data, selected) ==
    LET all == AllPropertyNames(data)
        includeKey == selected = <<>> \/ \E i \in 1..Len(selected) : IsKeyCol(selected[i])
        propCols == IF selected = <<>> THEN SortNames(all)
                    ELSE SelectSeq(selected, LAMBDA c : ~IsKeyCol(c) /\ c \in all)
        keyPart(e) == IF includeKey THEN <<KeyV(e.id)>> ELSE <<>>
        cell(e, c) == IF c \in DOMAIN e.props THEN ParseProperties(e.props[c]) ELSE NoneV
    IN  [rows   |-> [i \in 1..Len(data) |->
                        keyPart(data[i])
                        \o [j \in 1..Len(propCols) |-> cell(data[i], propCols[j])]],
         fields |-> Dedup((IF includeKey THEN <<KEY_FIELD>> ELSE <<>>) \o propCols)]

(***************************************************************************)
(* Cursor._apply_client_side_order_by                                      *)
(***************************************************************************)
\* list.index(x): the first index of x, 0 when absent
FirstIndex(seq, x) ==
    IF \E i \in 1..Len(seq) : seq[i] = x
    THEN CHOOSE i \in 1..Len(seq) : seq[i] = x /\ \A j \in 1..(i - 1) : seq[j] # x
    ELSE 0

\* compare_rows on the values of one key: Null after everything else, the
\* order c of the two values turned round for a descending key; rest is the
\* comparison on the keys that follow, taken when the values tie or cannot
\* be compared
CompareValues(va, vb, c, asc, rest) ==
    IF va = NoneV /\ vb = NoneV THEN rest
    ELSE IF va = NoneV THEN 1
    ELSE IF vb = NoneV THEN 0 - 1
    ELSE IF c \in {"eq", "TypeError"} THEN rest
    ELSE IF (c = "lt") = asc THEN 0 - 1 ELSE 1

\* row[idx] if idx < len(row) else None, None for a column that is no field
CellAt(row, idx) == IF idx > 0 /\ idx <= Len(row) THEN row[idx] ELSE NoneV

\* compare_rows: -1, 0 or 1
RECURSIVE CompareRows(_, _, _, _, _)
CompareRows(a, b, fieldNames, orderKeys, k) ==
    LET Values(va, vb) ==
            CompareValues(va, vb, PyCmp(va, vb), orderKeys[k].asc,
                          CompareRows(a, b, fieldNames, orderKeys, k + 1))
        At(idx) == Values(CellAt(a, idx), CellAt(b, idx))
    IN  IF k > Len(orderKeys) THEN 0
        ELSE At(FirstIndex(fieldNames, orderKeys[k].col))

\* ISLT of sorted(rows, key=cmp_to_key(compare_rows)): compare_rows(a, b) < 0
RowLess(a, b, fieldNames, orderKeys) == CompareRows(a, b, fieldNames, orderKeys, 1) < 0

\* count_run of sorted: the length of the run the list starts with, strictly
\* descending (desc) or not descending, n rows of it being known
RECURSIVE RunLength(_, _, _, _, _)
RunLength(rows, n, desc, fieldNames, orderKeys) ==
    IF n < Len(rows) /\ RowLess(rows[n + 1], rows[n], fieldNames, orderKeys) = desc
    THEN RunLength(rows, n + 1, desc, fieldNames, orderKeys)
    ELSE n

\* binarysort of sorted: how many rows of the sorted run stay left of x, found
\* by bisection between l and r
RECURSIVE BinaryPlace(_, _, _, _, _, _)
BinaryPlace(sorted, x, l, r, fieldNames, orderKeys) ==
    IF l >= r THEN l
    ELSE LET m == l + ((r - l) \div 2)
         IN  IF RowLess(x, sorted[m + 1], fieldNames, orderKeys)
             THEN BinaryPlace(sorted, x, l, m, fieldNames, orderKeys)
             ELSE BinaryPlace(sorted, x, m + 1, r, fieldNames, orderKeys)

InsertSorted(sorted, x, fieldNames, orderKeys) ==
    LET PlacedAt(l) == SubSeq(sorted, 1, l) \o <<x>> \o SubSeq(sorted, l + 1, Len(sorted))
    IN  PlacedAt(BinaryPlace(sorted, x, 0, Len(sorted), fieldNames, orderKeys))

\* binarysort of sorted: the first done rows are sorted, the others are
\* inserted one after the other
RECURSIVE BinarySort(_, _, _, _)
BinarySort(rows, done, fieldNames, orderKeys) ==
    IF done >= Len(rows) THEN rows
    ELSE BinarySort(InsertSorted(SubSeq(rows, 1, done), rows[done + 1], fieldNames, orderKeys)
                        \o SubSeq(rows, done + 2, Len(rows)),
                    done + 1, fieldNames, orderKeys)

\* sorted(rows, key=cmp_to_key(compare_rows)) for a list of fewer than 64
\* rows: the leading run is found, turned round when it descends, and the
\* other rows are inserted into it
SortRows(rows, fieldNames, orderKeys) ==
    IF Len(rows) < 2 THEN rows
    ELSE LET Sorted(desc, run) ==
                 BinarySort((IF desc THEN [i \in 1..run |-> rows[run + 1 - i]]
                             ELSE SubSeq(rows, 1, run))
                            \o SubSeq(rows, run + 1, Len(rows)),
                            run, fieldNames, orderKeys)
             Run(desc) == Sorted(desc, RunLength(rows, 2, desc, fieldNames, orderKeys))
         IN  Run(RowLess(rows[2], rows[1], fieldNames, orderKeys))

ApplyClientSideOrderBy(rows, fieldNames, orderKeys) ==
    IF orderKeys = <<>> \/ rows = <<>> THEN rows
    ELSE SortRows(rows, fieldNames, orderKeys)

(***************************************************************************)
(* Statement classification and the SQL to GQL rewriting                   *)
(***************************************************************************)
SELECT == <<"S","E","L","E","C","T">>

AGGREGATE == <<"A","G","G","R","E","G","A","T","E">>

FROM_ == <<" ","F","R","O","M"," ">>

\* " ".join(words)
RECURSIVE JoinWords(_)
JoinWords(ws) ==
    IF ws = <<>> THEN <<>>
    ELSE IF Len(ws) = 1 THEN ws[1]
    ELSE ws[1] \o <<" ">> \o JoinWords(Tail(ws))

\* re.sub(r"\s+", " ", statement).strip()
NormalizeWs(s) == JoinWords(Words(s))

DISTINCT == <<"D","I","S","T","I","N","C","T">>

\* DISTINCT\s+ON\s*\([^)]*\)\s* matched at i: the index after the match, 0
\* when there is none
DistinctOnEnd(s, i) ==
    LET Closed(c) == IF c <= Len(s) THEN SkipWs(s, c + 1) ELSE 0
        Opened(p) == IF TextAt(s, p, <<"(">>) THEN Closed(SkipTo(s, p + 1, ")")) ELSE 0
        On(o) == IF o > i + 8 /\ KwAt(s, o, <<"O","N">>) THEN Opened(SkipWs(s, o + 2)) ELSE 0
    IN  IF KwAt(s, i, DISTINCT) THEN On(SkipWs(s, i + 8)) ELSE 0

\* re.sub(r"\bDISTINCT\s+ON\s*\([^)]*\)\s*", "", statement), for a text with
\* at most one DISTINCT ON
StripDistinctOn(s) ==
    LET Cut(i) == SubSeq(s, 1, i - 1) \o From(s, DistinctOnEnd(s, i))
        First(hits) ==
            IF hits = {} THEN s ELSE Cut(CHOOSE i \in hits : \A j \in hits : i <= j)
    IN  First({i \in WordStarts(s, DISTINCT) : DistinctOnEnd(s, i) # 0})

\* the text of the SELECT list: statement[:from_pos] without its "SELECT "
SelectColsStr(s) ==
    LET Cols(head, a) ==
            Strip(IF KwAt(head, 1, SELECT) /\ a > 7 THEN From(head, a) ELSE head)
        Head_(head) == Cols(head, SkipWs(head, 7))
        Upto(f) == Head_(IF f > 0 THEN SubSeq(s, 1, f - 1) ELSE s)
    IN  Upto(Find(s, FROM_))

\* "Datastore restriction": a projection with a WHERE clause is sent as SELECT *
ProjectionToStar(s) ==
    LET f == Find(s, FROM_)
        w == Find(s, WHERE_)
        cols == SelectColsStr(s)
    IN  IF /\ f > 1
           /\ w > f
           /\ cols # <<"*">>
           /\ Upper(cols) # <<"_","_","K","E","Y","_","_">>
           /\ ~KwAt(cols, 1, <<"D","I","S","T","I","N","C","T">>)
        THEN <<"S","E","L","E","C","T"," ","*"," ">> \o From(s, f + 1)
        ELSE s

KEY_NAME == <<"_","_","k","e","y","_","_">>

\* re.sub(r"\bid\b", "__key__", s, flags=re.IGNORECASE) from index i on
RECURSIVE ReplaceIdWord(_, _)
ReplaceIdWord(s, i) ==
    IF i > Len(s) THEN <<>>
    ELSE IF /\ KwAt(s, i, <<"I","D">>)
            /\ (i = 1 \/ ~IsWordChar(s[i - 1]))
            /\ (i + 2 > Len(s) \/ ~IsWordChar(s[i + 2]))
    THEN KEY_NAME \o ReplaceIdWord(s, i + 2)
    ELSE <<s[i]>> \o ReplaceIdWord(s, i + 1)

\* ", ".join(cols)
RECURSIVE JoinCols(_)
JoinCols(cols) ==
    IF cols = <<>> THEN <<>>
    ELSE IF Len(cols) = 1 THEN cols[1]
    ELSE cols[1] \o <<",", " ">> \o JoinCols(Tail(cols))

\* the SELECT clause without the columns id and __key__; __key__ alone when
\* no other column is left
SelectWithoutKey(clause) ==
    LET a == SkipWs(clause, 7)
        d == IF KwAt(clause, a, DISTINCT) /\ SkipWs(clause, a + 8) > a + 8
             THEN SkipWs(clause, a + 8) ELSE a
        Kept(prefix, cols, nonKey) ==
            IF nonKey = <<>> THEN prefix \o KEY_NAME
            ELSE IF Len(nonKey) < Len(cols) THEN prefix \o JoinCols(nonKey)
            ELSE clause
        Cols(prefix, items) ==
            Kept(prefix, items,
                 SelectSeq(items, LAMBDA c : Upper(c) \notin {<<"I","D">>, Upper(KEY_NAME)}))
        Split(prefix, items) == Cols(prefix, [i \in DOMAIN items |-> Strip(items[i])])
    IN  IF KwAt(clause, 1, SELECT) /\ a > 7
        THEN Split(SubSeq(clause, 1, d - 1), SplitChar(From(clause, d), ","))
        ELSE clause

\* the bare id references: id leaves the projection and is __key__ elsewhere
IdToKey(s) ==
    LET f == Find(s, FROM_)
    IN  IF f > 1 THEN SelectWithoutKey(SubSeq(s, 1, f - 1)) \o ReplaceIdWord(From(s, f), 1)
        ELSE ReplaceIdWord(s, 1)

\* \b(?:id|__key__)\s*=\s*\d+ matched at i: [ok, digits, end]
KeyEqualityAt(s, i) ==
    LET Digits(e, d, end) ==
            [ok     |-> /\ e <= Len(s)
                        /\ (i = 1 \/ ~IsWordChar(s[i - 1]))
                        /\ TextAt(s, e, <<"=">>)
                        /\ end > d,
             digits |-> SubSeq(s, d, end - 1),
             end    |-> end]
        Value(e, d) == Digits(e, d, SkipDigits(s, d))
        Equals(e) == Value(e, SkipWs(s, e + 1))
    IN  Equals(SkipWs(s, IF KwAt(s, i, <<"I","D">>) THEN i + 2
                         ELSE IF KwAt(s, i, Upper(KEY_NAME)) THEN i + 7 ELSE Len(s) + 1))

\* re.search(r"\bWHERE\b.*\b(?:id|__key__)\s*=\s*(\d+)"): group 1, <<>> when
\* there is no match; the greedy .* stops at the last equality after WHERE
KeyIdValue(s) ==
    LET Last(hits) ==
            IF hits = {} THEN <<>>
            ELSE KeyEqualityAt(s, CHOOSE i \in hits : \A j \in hits : j <= i).digits
        After(wheres) ==
            Last({i \in 1..Len(s) : KeyEqualityAt(s, i).ok /\ \E w \in wheres : w + 5 <= i})
    IN  After({w \in WordStarts(s, <<"W","H","E","R","E">>) :
                  w + 5 > Len(s) \/ ~IsWordChar(s[w + 5])})

\* re.sub(r"\b(?:id|__key__)\s*=\s*\d+", "__key__ = KEY(table, value)", s)
\* from index i on
RECURSIVE ReplaceKeyEqualities(_, _, _)
ReplaceKeyEqualities(s, i, literal) ==
    LET Step(m) ==
            IF m.ok THEN literal \o ReplaceKeyEqualities(s, m.end, literal)
            ELSE <<s[i]>> \o ReplaceKeyEqualities(s, i + 1, literal)
    IN  IF i > Len(s) THEN <<>> ELSE Step(KeyEqualityAt(s, i))

\* __key__ = KEY(table, value)
KeyLiteral(table, value) ==
    KEY_NAME \o <<" ","="," ","K","E","Y","(">> \o table \o <<",", " ">> \o value \o <<")">>

\* id = <number> in WHERE clauses -> KEY() syntax
KeyEqualitiesToLiterals(s, table) ==
    LET With(value) ==
            IF table = <<>> \/ value = <<>> THEN s
            ELSE ReplaceKeyEqualities(s, 1, KeyLiteral(table, value))
    IN  With(KeyIdValue(s))

\* the rewriting steps of _convert_sql_to_gql after the white space is
\* normalized: DISTINCT ON, id references, projection with WHERE, key literals
ConvertNormalized(s) ==
    KeyEqualitiesToLiterals(ProjectionToStar(IdToKey(StripDistinctOn(s))), TableName(s))

\* Cursor._convert_sql_to_gql on the statements of this model: texts without
\* <>, IN lists, LIMIT FIRST, ROW_NUMBER, aliases or table prefixes, on which
\* the other rewriting steps leave the text as it is
ConvertSqlToGql(statement) ==
    IF KwAt(Strip(statement), 1, AGGREGATE) THEN statement
    ELSE ConvertNormalized(NormalizeWs(statement))

\* re.search(r"\bKW\s*\(", upper)
WordCall(s, kw) ==
    \E i \in WordStarts(s, kw) : TextAt(s, SkipWs(s, i + Len(kw)), <<"(">>)

\* Cursor._needs_client_side_filter
NeedsClientSideFilter(statement) ==
    \/ SearchWord(Upper(statement), OR)
    \/ WordCall(statement, <<"B","L","O","B">>)

\* Cursor._is_aggregation_query
IsAggregationQuery(statement) ==
    \/ KwAt(Strip(statement), 1, AGGREGATE)
    \/ WordCall(statement, <<"C","O","U","N","T">>)
    \/ WordCall(statement, <<"C","O","U","N","T","_","U","P","_","T","O">>)
    \/ WordCall(statement, <<"S","U","M">>)
    \/ WordCall(statement, <<"A","V","G">>)

\* Cursor._is_derived_query: a second SELECT token
IsDerivedQuery(statement) == Cardinality(WordStarts(statement, SELECT)) >= 2

\* Cursor._parse_select_columns: the names of the SELECT list, <<>> for None
\* (a star, nothing that names a column, or a statement that is no SELECT);
\* DISTINCT and DISTINCT ON (...) are no expressions of the list
ParseSelectColumns(statement) ==
    LET isName(n) == n # <<>> /\ SkipWord(n, 1) = Len(n) + 1 /\ ~AllDigits(n)
        rename(n) == IF Upper(n) = <<"I","D">> THEN <<"_","_","k","e","y","_","_">> ELSE n
        Renamed(kept) == [i \in 1..Len(kept) |-> rename(kept[i])]
        Named(names) ==
            IF \E i \in 1..Len(names) : names[i] = <<"*">> THEN <<>>
            ELSE Renamed(SelectSeq(names, isName))
        Stripped(items) == Named([i \in 1..Len(items) |-> Strip(items[i])])
        Plain(list, a) ==
            IF KwAt(list, 1, DISTINCT) /\ a > 9 THEN From(list, a) ELSE list
        Expressions(list) == Stripped(SplitChar(Plain(list, SkipWs(list, 9)), ","))
        Columns(st) ==
            IF ~KwAt(st, 1, SELECT) THEN <<>>
            ELSE Expressions(SelectColsStr(StripDistinctOn(st)))
    IN  Columns(Strip(statement))

(***************************************************************************)
(* The remote query service behind _execute_gql_request: what a 200 answer *)
(* to a GQL text holds.  Its comparisons are typed natively (an Integer is *)
(* never a Double), its WHERE is a conjunction of comparisons.             *)
(***************************************************************************)
\* the parts of a native WHERE clause around its AND keywords
RECURSIVE SplitAnd(_)
SplitAnd(c) ==
    LET a == Find(c, <<" ","A","N","D"," ">>)
    IN  IF a = 0 THEN <<c>>
        ELSE <<SubSeq(c, 1, a - 1)>> \o SplitAnd(From(c, a + 5))

\* a native comparison is typed: the stored value and the literal have the
\* same type, and their order is one of the accepted ones
NativeTyped(fv, value, accept) ==
    /\ value # ErrV
    /\ fv.t = value.t
    /\ IF fv.t = "none" THEN "eq" \in accept ELSE PyCmp(fv, value) \in accept

NativeCompare(e, m, accept) ==
    /\ m.field \in DOMAIN e.props
    /\ NativeTyped(ParseProperties(e.props[m.field]), ParseLiteral(m.value), accept)

\* the comparison an atom is, by its first matching operator, with the
\* orders that satisfy it
NativePick(ne, ge, le, gt, lt, eq) ==
    IF ne.ok THEN [m |-> ne, accept |-> {"lt", "gt"}]
    ELSE IF ge.ok THEN [m |-> ge, accept |-> {"gt", "eq"}]
    ELSE IF le.ok THEN [m |-> le, accept |-> {"lt", "eq"}]
    ELSE IF gt.ok THEN [m |-> gt, accept |-> {"gt"}]
    ELSE IF lt.ok THEN [m |-> lt, accept |-> {"lt"}]
    ELSE [m |-> eq, accept |-> {"eq"}]

NativeMatched(e, km, pick) ==
    IF km.ok THEN ~km.quoted /\ NatText(e.id) = km.text
    ELSE pick.m.ok /\ NativeCompare(e, pick.m, pick.accept)

NativeShapes(e, c) ==
    NativeMatched(e, KeyMatch(c),
                  NativePick(CmpMatch(c, <<"!", "=">>), CmpMatch(c, <<">", "=">>),
                             CmpMatch(c, <<"<", "=">>), CmpMatch(c, <<">">>),
                             CmpMatch(c, <<"<">>), CmpMatch(c, <<"=">>)))

NativeAtom(e, atom) == NativeShapes(e, Strip(atom))

NativeWhere(e, gql) ==
    \/ Find(gql, WHERE_) = 0
    \/ LET atoms == SplitAnd(WhereClause(gql))
       IN  \A i \in 1..Len(atoms) : NativeAtom(e, atoms[i])

\* the entities in the order of the ORDER BY keys; an entity without an
\* ordering property is not in an ordered result
NativeOrder(ents, keys) ==
    LET has == SelectSeq(ents, LAMBDA e : \A k \in 1..Len(keys) : keys[k].col \in DOMAIN e.props)
        names == [k \in 1..Len(keys) |-> keys[k].col]
        row(i) == [k \in 1..Len(keys) |-> ParseProperties(has[i].props[keys[k].col])]
                  \o <<IntV(i)>>
        sorted == SortRows([i \in 1..Len(has) |-> row(i)], names, keys)
    IN  IF keys = <<>> THEN ents
        ELSE [i \in 1..Len(sorted) |-> has[sorted[i][Len(keys) + 1].n]]

\* rows[offset:][:limit]
Paginate(rows, lo) ==
    LET dropped == SubSeq(rows, lo.offset + 1, Len(rows))
    IN  IF lo.limit < 0 THEN dropped ELSE SubSeq(dropped, 1, Min(lo.limit, Len(dropped)))

\* a projection answers with the entities that hold every projected property
NativeProject(ents, gql) ==
    LET Onto(has, props) ==
            [i \in 1..Len(has) |->
                [id |-> has[i].id, props |-> [c \in props |-> has[i].props[c]]]]
        Holding(props) ==
            Onto(SelectSeq(ents, LAMBDA e : props \subseteq DOMAIN e.props), props)
        Columns(cols) ==
            IF cols = <<>> THEN ents
            ELSE Holding({cols[i] : i \in {j \in 1..Len(cols) : ~IsKeyCol(cols[j])}})
    IN  Columns(ParseSelectColumns(gql))

\* SELECT DISTINCT: the first entity of each combination of projected values
NativeDistinct(ents, gql) ==
    IF KwAt(SelectColsStr(gql), 1, DISTINCT)
    THEN LET Entities(kept) == [i \in DOMAIN kept |-> kept[i].e]
         IN  Entities(SelectSeq([i \in DOMAIN ents |-> [at |-> i, e |-> ents[i]]],
                                LAMBDA x : \A j \in 1..(x.at - 1) :
                                              ents[j].props # x.e.props))
    ELSE ents

\* the entityResults of a 200 answer to the query text, over the stored kind
RunQuery(gql, kind, entities) ==
    IF TableName(gql) # kind THEN <<>>
    ELSE Paginate(
            NativeDistinct(
                NativeProject(
                    NativeOrder(SelectSeq(entities, LAMBDA e : NativeWhere(e, gql)),
                                ParseOrderByClause(gql)),
                    gql),
                gql),
            ParseLimitOffsetClause(gql))

(***************************************************************************)
(* Aggregation: _parse_aggregation_query, _extract_agg_functions,          *)
(* _compute_aggregations                                                   *)
(***************************************************************************)
COUNT_UP_TO == <<"C","O","U","N","T","_","U","P","_","T","O">>

COUNT == <<"C","O","U","N","T">>

SUM == <<"S","U","M">>

AVG == <<"A","V","G">>

\* KW\s*\(\s*ARG\s*\)(?:\s+AS\s+(\w+))? matched at i; ARG is a star, digits
\* or a word
AggAt(s, i, kw) ==
    LET p == SkipWs(s, i + Len(kw))
        a == SkipWs(s, p + 1)
        ae == IF kw = COUNT THEN (IF TextAt(s, a, <<"*">>) THEN a + 1 ELSE a)
              ELSE IF kw = COUNT_UP_TO THEN SkipDigits(s, a)
              ELSE SkipWord(s, a)
        c == SkipWs(s, ae)
        w1 == SkipWs(s, c + 1)
        w2 == SkipWs(s, w1 + 2)
        ale == SkipWord(s, w2)
        aliased == w1 > c + 1 /\ KwAt(s, w1, <<"A","S">>) /\ w2 > w1 + 2 /\ ale > w2
    IN  [ok    |-> KwAt(s, i, kw) /\ TextAt(s, p, <<"(">>) /\ ae > a /\ TextAt(s, c, <<")">>),
         col   |-> SubSeq(s, a, ae - 1),
         alias |-> IF aliased THEN SubSeq(s, w2, ale - 1) ELSE kw,
         end   |-> IF aliased THEN ale ELSE c + 1]

\* re.finditer(pattern, clause): the matches from left to right, not overlapping
RECURSIVE AggFindIter(_, _, _)
AggFindIter(s, i, kw) ==
    LET Step(m) ==
            IF m.ok
            THEN <<[fn |-> kw, col |-> m.col, alias |-> m.alias]>> \o AggFindIter(s, m.end, kw)
            ELSE AggFindIter(s, i + 1, kw)
    IN  IF i > Len(s) THEN <<>> ELSE Step(AggAt(s, i, kw))

\* Cursor._extract_agg_functions: pattern by pattern
ExtractAggFunctions(clause) ==
    AggFindIter(clause, 1, COUNT_UP_TO) \o AggFindIter(clause, 1, COUNT)
    \o AggFindIter(clause, 1, SUM) \o AggFindIter(clause, 1, AVG)

\* Cursor._parse_aggregation_query: [aggs, base]; base = <<>> stands for None
ParseAggregationQuery(statement) ==
    LET Inner(st, over, open, inner) ==
            IF over > 1 /\ TextAt(st, open, <<"(">>) /\ EndsWith(st, ")")
               /\ KwAt(inner, 1, SELECT)
            THEN inner ELSE <<>>
        Over(st, over, open) ==
            Inner(st, over, open, Strip(SubSeq(st, open + 1, Len(st) - 1)))
        Parts(st, over, f) ==
            [clause |-> IF KwAt(st, 1, AGGREGATE)
                        THEN Strip(From(Strip(SubSeq(st, 1, Max(over, 1) - 1)), 10))
                        ELSE IF KwAt(statement, 1, SELECT) /\ f > 7
                        THEN SubSeq(statement, 8, f - 1)
                        ELSE IF KwAt(statement, 1, SELECT) THEN From(statement, 8)
                        ELSE <<>>,
             base   |-> IF KwAt(st, 1, AGGREGATE) THEN Over(st, over, SkipWs(st, over + 4))
                        ELSE IF KwAt(statement, 1, SELECT) /\ f > 7
                        THEN SELECT_STAR_FROM \o From(statement, f + 6)
                        ELSE <<>>]
        Parsed(parts) == [aggs |-> ExtractAggFunctions(parts.clause), base |-> parts.base]
        Of(st) == Parsed(Parts(st, Find(st, <<"O","V","E","R">>), Find(statement, FROM_)))
    IN  Of(Strip(statement))

RECURSIVE SumTenths(_)
SumTenths(values) ==
    IF values = <<>> THEN 0 ELSE Tenths(Head(values)) + SumTenths(Tail(values))

\* sum(numeric_values): an int while every value is an int, a double otherwise
PySum(values) ==
    IF \E i \in 1..Len(values) : values[i].t = "float" THEN FloatV(SumTenths(values))
    ELSE IntV(SumTenths(values) \div 10)

\* the mutation of the aggregates that counts every row whatever the limit
UncappedCount(rows, fieldNames, agg) == IntV(Len(rows))

\* one aggregate over the rows
ComputeAgg(rows, fieldNames, agg) ==
    LET idx == FirstIndex(fieldNames, agg.col)
        values == [i \in 1..Len(rows) |-> rows[i][idx]]
        numeric == SelectSeq(values, IsNum)
    IN  IF agg.fn = COUNT THEN IntV(Len(rows))
        ELSE IF agg.fn = COUNT_UP_TO THEN IntV(Min(Len(rows), DigitsVal(agg.col)))
        ELSE IF idx = 0 \/ numeric = <<>> THEN IntV(0)
        ELSE IF agg.fn = SUM THEN PySum(numeric)
        ELSE FloatV(SumTenths(numeric) \div Len(numeric))

AggAliases(aggs) == Dedup([i \in 1..Len(aggs) |-> aggs[i].alias])

\* Cursor._compute_aggregations: one row and the field names of the result
ComputeAggregations(rows, fieldNames, aggs) ==
    [rows   |-> << [i \in 1..Len(aggs) |-> ComputeAgg(rows, fieldNames, aggs[i])] >>,
     fields |-> AggAliases(aggs)]

\* the row of zeros of an aggregation over nothing
ZeroAggregations(aggs) ==
    [rows |-> << [i \in 1..Len(aggs) |-> IntV(0)] >>, fields |-> AggAliases(aggs)]

(***************************************************************************)
(* The cursor and its query executors.  A cursor is the record             *)
(*   [rowcount, rows, iter, closed, description, warnings, lastrowid]      *)
(* rows is what _query_rows has still to yield (iter: it is an iterator),  *)
(* description is [set, names] (set = FALSE for None; the name <<>> is     *)
(* None).  An executor returns [cur, requests, outcome]: the cursor after  *)
(* the call, the remote requests it sent, and "ok" or the exception.       *)
(***************************************************************************)
NewCursor ==
    [rowcount |-> 0 - 1, rows |-> <<>>, iter |-> FALSE, closed |-> FALSE,
     description |-> [set |-> FALSE, names |-> <<>>], warnings |-> <<>>,
     lastrowid |-> NoneV]

\* [(None, None, None, None, None, None, None)]
PlaceholderDescription == [set |-> TRUE, names |-> << <<>> >>]

\* fields if len(fields) > 0 else None
FieldsOrNone(names) == [set |-> names # <<>>, names |-> names]

W_GQL_FAILED == "GQL query failed. Falling back to fetching ALL entities"

W_MISSING_INDEX == "Missing index: the query requires an index that does not exist"

W_AGG_FAILED == "Aggregation base query failed. Falling back to fetching ALL entities"

Req(q, status) == [q |-> q, status |-> status]

\* variant: no status counts as a failure
NeverFailed(status) == FALSE

\* variant: the fallback request is sent again after its answer
RepeatedRequests(fq, status) == <<Req(fq, status), Req(fq, status)>>

\* response.status_code != 200
Failed(status) == status # 200

\* the requests of the fallback: one for the table-only query
FallbackRequests(fq, status) == <<Req(fq, status)>>

Out(cur, requests, outcome) == [cur |-> cur, requests |-> requests, outcome |-> outcome]

Warn(cur, w) == [cur EXCEPT !.warnings = Append(@, w)]

WithRows(cur, rows, description) ==
    [cur EXCEPT !.rows = rows, !.iter = TRUE, !.rowcount = Len(rows),
                !.description = description]

\* the projection of the fallback rows to the selected columns
FallbackProject(rows, fields, selected) ==
    LET lookup(c) == IF IsKeyCol(c) THEN KEY_FIELD ELSE c
        known(c) == FirstIndex(fields, lookup(c)) > 0
        kept == SelectSeq(selected, known)
        cell(row, c) == LET idx == FirstIndex(fields, lookup(c))
                        IN  IF idx > 0 /\ idx <= Len(row) THEN row[idx] ELSE NoneV
    IN  [rows   |-> [i \in 1..Len(rows) |->
                        [j \in 1..Len(selected) |-> cell(rows[i], selected[j])]],
         fields |-> Dedup([j \in 1..Len(kept) |-> lookup(kept[j])])]

\* _execute_fallback_query once the rows are paginated: the projection to
\* the selected columns
FallbackSelect(paged, fields, selected) ==
    IF selected = <<>> THEN [rows |-> paged, fields |-> fields]
    ELSE FallbackProject(paged, fields, selected)

\* _execute_fallback_query over the parsed entities: filter, order,
\* paginate, project
FallbackRows(parsed, original, gql) ==
    FallbackSelect(
        Paginate(ApplyClientSideOrderBy(
                     ApplyClientSideFilter(parsed.rows, parsed.fields, original),
                     parsed.fields, ParseOrderByClause(gql)),
                 ParseLimitOffsetClause(gql)),
        parsed.fields, ParseSelectColumns(original))

FallbackResult(warned, requests, final) ==
    Out([WithRows(warned, final.rows, FieldsOrNone(final.fields)) EXCEPT !.closed = FALSE],
        requests, "ok")

\* _execute_fallback_query after the 200 answer to the fallback request
FallbackAnswer(warned, original, gql, requests, data) ==
    IF data = <<>> THEN Out(WithRows(warned, <<>>, PlaceholderDescription), requests, "ok")
    ELSE FallbackResult(warned, requests, FallbackRows(ParseEntity(data, <<>>), original, gql))

\* _execute_fallback_query after the warning: the fallback request fq
FallbackFetch(warned, original, gql, s2, fq, kind, entities) ==
    IF fq = <<>> THEN Out(warned, <<>>, "ProgrammingError")
    ELSE IF Failed(s2) THEN Out(warned, FallbackRequests(fq, s2), "OperationalError")
    ELSE FallbackAnswer(warned, original, gql, FallbackRequests(fq, s2),
                        RunQuery(fq, kind, entities))

\* Cursor._execute_fallback_query
ExecuteFallbackQuery(cur, original, gql, s2, kind, entities) ==
    FallbackFetch(Warn(cur, W_MISSING_INDEX), original, gql, s2,
                  ExtractTableOnlyQuery(gql), kind, entities)

\* the one aggregation row set on the cursor
AggDone(cur, res) ==
    [cur EXCEPT !.rows = res.rows, !.iter = TRUE, !.rowcount = 1,
                !.description = [set |-> TRUE, names |-> res.fields]]

\* _execute_aggregation_query over the parsed entities of an answer
AggResult(cur, aggs, base, filter, requests, parsed) ==
    Out(AggDone(cur, ComputeAggregations(
                        IF filter THEN ApplyClientSideFilter(parsed.rows, parsed.fields, base)
                        ELSE parsed.rows,
                        parsed.fields, aggs)),
        requests, "ok")

\* _execute_aggregation_query after a 200 answer (primary or fallback)
AggAnswer(cur, aggs, base, filter, requests, data) ==
    IF data = <<>> THEN Out(AggDone(cur, ZeroAggregations(aggs)), requests, "ok")
    ELSE AggResult(cur, aggs, base, filter, requests, ParseEntity(data, <<>>))

\* _execute_aggregation_query after a non-200 primary answer
AggFallback(warned, aggs, base, primary, s2, fq, kind, entities) ==
    IF fq = <<>> THEN Out(warned, primary, "ProgrammingError")
    ELSE IF Failed(s2)
    THEN Out(warned, primary \o FallbackRequests(fq, s2), "OperationalError")
    ELSE AggAnswer(warned, aggs, base, TRUE, primary \o FallbackRequests(fq, s2),
                   RunQuery(fq, kind, entities))

\* _execute_aggregation_query: the primary request gql
AggRequest(cur, aggs, base, original, needs, gql, s1, s2, kind, entities) ==
    IF Failed(s1)
    THEN AggFallback(Warn(cur, W_AGG_FAILED), aggs, base, <<Req(gql, s1)>>, s2,
                     ExtractTableOnlyQuery(original), kind, entities)
    ELSE AggAnswer(cur, aggs, base, needs, <<Req(gql, s1)>>, RunQuery(gql, kind, entities))

\* _execute_aggregation_query once the base query is translated
AggBase(cur, aggs, base, original, s1, s2, kind, entities) ==
    AggRequest(cur, aggs, base, original, NeedsClientSideFilter(original),
               IF NeedsClientSideFilter(original)
               THEN ConvertSqlToGql(ExtractBaseQueryForFilter(original))
               ELSE original,
               s1, s2, kind, entities)

\* _execute_aggregation_query once the statement is parsed
AggParsed(cur, parsed, s1, s2, kind, entities) ==
    IF parsed.aggs = <<>>
    THEN Out([cur EXCEPT !.rows = <<>>, !.iter = TRUE, !.rowcount = 0,
                         !.description = [set |-> TRUE, names |-> <<>>]], <<>>, "ok")
    ELSE IF parsed.base = <<>> THEN Out(AggDone(cur, ZeroAggregations(parsed.aggs)), <<>>, "ok")
    ELSE AggBase(cur, parsed.aggs, parsed.base, ConvertSqlToGql(parsed.base),
                 s1, s2, kind, entities)

\* Cursor._execute_aggregation_query
ExecuteAggregationQuery(cur, statement, s1, s2, kind, entities) ==
    AggParsed(cur, ParseAggregationQuery(statement), s1, s2, kind, entities)

\* gql_query over the parsed entities of the 200 answer
GqlResult(cur, statement, needs, requests, data, parsed) ==
    IF KwAt(Strip(statement), 1, SELECT)
    THEN Out([WithRows(cur,
                       IF needs
                       THEN ApplyClientSideFilter(parsed.rows, parsed.fields, statement)
                       ELSE parsed.rows,
                       FieldsOrNone(parsed.fields))
                EXCEPT !.closed = FALSE],
             requests, "ok")
    ELSE Out([WithRows(cur, <<>>, PlaceholderDescription)
                EXCEPT !.rowcount = Len(data), !.closed = TRUE],
             requests, "ok")

\* gql_query after the 200 answer to the primary request
GqlAnswer(cur, statement, needs, requests, data) ==
    IF data = <<>> THEN Out(WithRows(cur, <<>>, PlaceholderDescription), requests, "ok")
    ELSE GqlResult(cur, statement, needs, requests, data,
                   ParseEntity(data, ParseSelectColumns(statement)))

\* gql_query after a non-200 answer: what the fallback made of the cursor
GqlFallback(requests, fb) == Out(fb.cur, requests \o fb.requests, fb.outcome)

\* gql_query: the primary request gql
GqlRequest(cur, statement, needs, gql, s1, s2, kind, entities) ==
    IF Failed(s1)
    THEN GqlFallback(<<Req(gql, s1)>>,
                     ExecuteFallbackQuery(Warn(cur, W_GQL_FAILED), statement, statement,
                                          s2, kind, entities))
    ELSE GqlAnswer(cur, statement, needs, <<Req(gql, s1)>>, RunQuery(gql, kind, entities))

\* gql_query once the statement is translated
GqlConverted(cur, statement, converted, s1, s2, kind, entities) ==
    GqlRequest(cur, statement, NeedsClientSideFilter(converted),
               IF NeedsClientSideFilter(converted)
               THEN ConvertSqlToGql(ExtractBaseQueryForFilter(converted))
               ELSE converted,
               s1, s2, kind, entities)

\* Cursor.gql_query (statements without parameters)
GqlQuery(cur, statement, s1, s2, kind, entities) ==
    IF IsAggregationQuery(statement)
    THEN ExecuteAggregationQuery(cur, statement, s1, s2, kind, entities)
    ELSE GqlConverted(cur, statement, ConvertSqlToGql(statement), s1, s2, kind, entities)

\* the text between the parenthesis that follows FROM and the last one
SubqueryText(statement) ==
    LET f == Find(statement, FROM_)
        open == SkipWs(statement, f + 6)
        closes == {i \in (open + 1)..Len(statement) : statement[i] = ")"}
        close == CHOOSE i \in closes : \A j \in closes : j <= i
    IN  IF f > 0 /\ TextAt(statement, open, <<"(">>) /\ closes # {}
        THEN Strip(SubSeq(statement, open + 1, close - 1))
        ELSE <<>>

MAX == <<"M","A","X">>

GROUP_BY_ == <<" ","G","R","O","U","P"," ","B","Y"," ">>

\* an aggregate with an alias in the outer SELECT list (exp.Alias over
\* exp.AggFunc): how is agg_func.key.lower(), col the column pandas
\* aggregates (<<>> for the star of COUNT(*)), name is alias_or_name
AliasedAggregate(m, how, col) ==
    [star |-> FALSE, agg |-> TRUE, how |-> how, col |-> col, name |-> m.alias]

\* one expression of the outer SELECT list as parse_one gives it: a star, a
\* column, or an aggregate with an alias, by the matches of COUNT(*), MAX(col)
\* and SUM(col) at its start
OuterMatched(item, cnt, mx, sm) ==
    IF cnt.ok /\ cnt.alias # COUNT THEN AliasedAggregate(cnt, "count", <<>>)
    ELSE IF mx.ok /\ mx.alias # MAX THEN AliasedAggregate(mx, "max", mx.col)
    ELSE IF sm.ok /\ sm.alias # SUM THEN AliasedAggregate(sm, "sum", sm.col)
    ELSE [star |-> item = <<"*">>, agg |-> FALSE, how |-> "", col |-> <<>>, name |-> item]

OuterExpression(item) ==
    OuterMatched(item, AggAt(item, 1, COUNT), AggAt(item, 1, MAX), AggAt(item, 1, SUM))

\* parsed.expressions of the outer query
OuterItems(items) == [i \in DOMAIN items |-> OuterExpression(Strip(items[i]))]

OuterExpressions(statement) ==
    OuterItems(SplitChar(SubSeq(statement, 8, Find(statement, FROM_) - 1), ","))

\* the column names of parsed.args["group"] of the outer query
GroupByCols(statement) ==
    LET Names(items) == [i \in DOMAIN items |-> Strip(items[i])]
        After(g) == IF g = 0 THEN <<>> ELSE Names(SplitChar(From(statement, g + 10), ","))
    IN  After(Find(statement, GROUP_BY_))

\* one pandas aggregate over the values of a column, Null values skipped:
\* count, max (Null for no value), sum
FrameAgg(values, how) ==
    LET present == SelectSeq(values, LAMBDA v : v # NoneV)
    IN  IF how = "count" THEN IntV(Len(present))
        ELSE IF how = "sum" THEN PySum(present)
        ELSE IF present = <<>> THEN NoneV
        ELSE present[CHOOSE i \in DOMAIN present :
                        \A j \in DOMAIN present : PyCmp(present[i], present[j]) # "lt"]

\* df.groupby(group_by_cols).agg(temp_agg=(col, how)).reset_index().rename(...):
\* a frame of the group columns and the aggregate alone, one row per key of
\* the frame given, the keys in ascending order, rows with a Null key left
\* out; err stands for the KeyError of a column the frame does not have
GroupAggregate(frame, groupCols, col, how, alias) ==
    LET at(c) == FirstIndex(frame.cols, c)
        keyOf(row) == [k \in DOMAIN groupCols |-> row[at(groupCols[k])]]
        Grouped(kept, keys) ==
            [cols |-> groupCols \o <<alias>>,
             rows |-> [i \in DOMAIN keys |->
                         keys[i] \o <<FrameAgg(
                             LET members == SelectSeq(kept, LAMBDA r : keyOf(r) = keys[i])
                             IN  [j \in DOMAIN members |-> members[j][at(col)]], how)>>],
             err  |-> FALSE]
        Keyed(kept) ==
            Grouped(kept, SortRows(Dedup([i \in DOMAIN kept |-> keyOf(kept[i])]), groupCols,
                                   [k \in DOMAIN groupCols |-> [col |-> groupCols[k], asc |-> TRUE]]))
    IN  IF at(col) = 0 \/ \E k \in DOMAIN groupCols : at(groupCols[k]) = 0
        THEN [frame EXCEPT !.err = TRUE]
        ELSE Keyed(SelectSeq(frame.rows, LAMBDA r : \A k \in DOMAIN groupCols : keyOf(r)[k] # NoneV))

\* execute_orm with a GROUP BY: for every aggregate of the SELECT list the
\* frame is replaced by the grouping of the frame it has become
RECURSIVE OrmGroup(_, _, _, _)
OrmGroup(frame, groupCols, exprs, k) ==
    IF k > Len(exprs) \/ frame.err THEN frame
    ELSE IF exprs[k].agg
    THEN OrmGroup(GroupAggregate(frame, groupCols,
                                 IF exprs[k].col = <<>> THEN groupCols[1] ELSE exprs[k].col,
                                 exprs[k].how, exprs[k].name),
                  groupCols, exprs, k + 1)
    ELSE OrmGroup(frame, groupCols, exprs, k + 1)

\* execute_orm with aggregates and no GROUP BY: one row of the aggregates
\* over the whole frame
OrmAggregate(frame, exprs) ==
    LET aggs == SelectSeq(exprs, LAMBDA e : e.agg)
        over(e) == IF e.col = <<>> THEN IntV(Len(frame.rows))
                   ELSE FrameAgg([i \in DOMAIN frame.rows |->
                                     frame.rows[i][FirstIndex(frame.cols, e.col)]], e.how)
    IN  IF \E i \in DOMAIN aggs : aggs[i].col # <<>> /\ FirstIndex(frame.cols, aggs[i].col) = 0
        THEN [frame EXCEPT !.err = TRUE]
        ELSE [cols |-> Dedup([i \in DOMAIN aggs |-> aggs[i].name]),
              rows |-> <<[i \in DOMAIN aggs |-> over(aggs[i])]>>,
              err  |-> FALSE]

\* execute_orm, the final column selection: without a star, the names of the
\* SELECT list that are columns of the frame
OrmSelect(frame, exprs) ==
    LET names == SelectSeq([i \in DOMAIN exprs |-> exprs[i].name],
                           LAMBDA n : FirstIndex(frame.cols, n) > 0)
    IN  IF \E i \in DOMAIN exprs : exprs[i].star THEN frame
        ELSE [cols |-> names,
              rows |-> [i \in DOMAIN frame.rows |->
                          [j \in DOMAIN names |-> frame.rows[i][FirstIndex(frame.cols, names[j])]]],
              err  |-> FALSE]

\* execute_orm around the result of the subquery, for an outer query without
\* ORDER BY and LIMIT: the frame of the subquery rows, grouped or
\* aggregated, and the columns selected from it
OrmFrame(inner, exprs, groupCols) ==
    LET Final(frame) ==
            IF frame.err
            THEN Out([inner.cur EXCEPT !.rows = <<>>], inner.requests, "KeyError")
            ELSE Out([inner.cur EXCEPT !.rows = frame.rows, !.rowcount = Len(frame.rows),
                                       !.description = [set |-> TRUE, names |-> frame.cols]],
                     inner.requests, "ok")
        Outer(frame) ==
            IF groupCols # <<>> THEN OrmGroup(frame, groupCols, exprs, 1)
            ELSE IF \E i \in DOMAIN exprs : exprs[i].agg THEN OrmAggregate(frame, exprs)
            ELSE frame
        Selected(frame) == IF frame.err THEN frame ELSE OrmSelect(frame, exprs)
    IN  IF inner.outcome # "ok" THEN inner
        ELSE IF inner.cur.closed THEN Out(inner.cur, inner.requests, "Error")
        ELSE Final(Selected(Outer([cols |-> inner.cur.description.names,
                                   rows |-> inner.cur.rows, err |-> FALSE])))

\* execute_orm once the subquery text is known
OrmSubquery(cur, statement, sub, s1, s2, kind, entities) ==
    IF sub = <<>> THEN Out(cur, <<>>, "ProgrammingError")
    ELSE OrmFrame(GqlQuery(cur, sub, s1, s2, kind, entities),
                  OuterExpressions(statement), GroupByCols(statement))

\* Cursor.execute_orm for an outer SELECT over a derived table
ExecuteOrm(cur, statement, s1, s2, kind, entities) ==
    OrmSubquery(cur, statement, SubqueryText(statement), s1, s2, kind, entities)

\* Cursor.execute for a statement that is no INSERT, UPDATE or DELETE
ExecuteQuery(cur, statement, s1, s2, kind, entities) ==
    IF cur.closed THEN Out(cur, <<>>, "Error")
    ELSE IF IsDerivedQuery(statement) THEN ExecuteOrm(cur, statement, s1, s2, kind, entities)
    ELSE GqlQuery(cur, statement, s1, s2, kind, entities)

(***************************************************************************)
(* Bounds and the data the specifications draw from                        *)
(***************************************************************************)
\* the most entities the kind holds
MaxEntities == 3

\* the most warnings a cursor collects before a new cursor is taken
MaxWarnings == 4

\* the largest size passed to fetchmany
MaxFetch == 2

\* the largest number in the rows and literals given to the evaluator
MaxNumber == 3

Kind == <<"u","s","e","r","s">>

NAge == <<"a","g","e">>

NTag == <<"t","a","g">>

NFloor == <<"f","l","o","o","r">>

\* the i-th entity of the kind: ages 30, 10, 25, ...; tags a, b, a, ...
Entity(i) ==
    [id |-> i,
     props |-> (NAge :> WInt(IF i % 3 = 1 THEN 30 ELSE IF i % 3 = 2 THEN 10 ELSE 25))
               @@ (NTag :> WStr(IF i % 2 = 0 THEN <<"b">> ELSE <<"a">>))
               @@ (NFloor :> WInt(i))]

KindOf(n) == [i \in 1..n |-> Entity(i)]

Statuses == {200, 400}

\* the query statements given to execute
AllSql == SELECT_STAR_FROM \o Kind

GtSql == SELECT_STAR_FROM \o Kind \o WHERE_ \o <<"a","g","e"," ",">"," ","2","0">>

AgeOrTagBText ==
    <<"a","g","e"," ",">"," ","2","0"," ","O","R"," ","t","a","g"," ","="," ","'","b","'">>

AgeOrTagCText ==
    <<"a","g","e"," ",">"," ","2","0"," ","O","R"," ","t","a","g"," ","="," ","'","c","'">>

OrSql == SELECT_STAR_FROM \o Kind \o WHERE_ \o AgeOrTagBText

OrFloorSql ==
    SELECT_STAR_FROM \o Kind \o WHERE_
    \o <<"f","l","o","o","r"," ","="," ","9"," ","O","R"," ","a","g","e"," ",">"," ","9","9">>

PagedOrSql ==
    SELECT_STAR_FROM \o Kind \o WHERE_ \o AgeOrTagCText \o LIMIT_ \o <<"1">> \o OFFSET_ \o <<"1">>

ProjectedOrSql ==
    <<"S","E","L","E","C","T"," ","t","a","g">> \o FROM_ \o Kind \o WHERE_ \o AgeOrTagCText

CountOrSql ==
    <<"S","E","L","E","C","T"," ","C","O","U","N","T","(","*",")">> \o FROM_ \o Kind
    \o WHERE_ \o AgeOrTagBText

AggregateSql ==
    <<"A","G","G","R","E","G","A","T","E"," ","C","O","U","N","T","(","*",")"," ","O","V","E","R"," ","(">>
    \o SELECT_STAR_FROM \o Kind \o <<")">>

KindlessSql == <<"S","E","L","E","C","T"," ","1">>

OrderedSql ==
    SELECT_STAR_FROM \o Kind \o ORDER_BY_ \o <<"a","g","e"," ","D","E","S","C">>
    \o LIMIT_ \o <<"2">>

DerivedSql ==
    SELECT_STAR_FROM \o <<"(">> \o SELECT_STAR_FROM \o Kind \o <<")"," ","A","S"," ","t">>

\* SELECT COUNT_UP_TO(n) FROM users
CountUpToSql(n) ==
    <<"S","E","L","E","C","T"," ">> \o COUNT_UP_TO \o <<"(">> \o NatText(n) \o <<")">>
    \o FROM_ \o Kind

\* AGGREGATE COUNT_UP_TO(2) OVER (SELECT * FROM users)
AggregateUpToSql ==
    AGGREGATE \o <<" ">> \o COUNT_UP_TO \o <<"(","2",")"," ","O","V","E","R"," ","(">>
    \o SELECT_STAR_FROM \o Kind \o <<")">>

\* SELECT DISTINCT tag FROM users
DistinctSql == <<"S","E","L","E","C","T"," ">> \o DISTINCT \o <<" ","t","a","g">> \o FROM_ \o Kind

\* SELECT DISTINCT ON (tag) tag FROM users
DistinctOnSql ==
    <<"S","E","L","E","C","T"," ">> \o DISTINCT \o <<" ","O","N"," ","(","t","a","g",")"," ","t","a","g">>
    \o FROM_ \o Kind

\* SELECT tag, tag FROM users
RepeatedSql == <<"S","E","L","E","C","T"," ","t","a","g",","," ","t","a","g">> \o FROM_ \o Kind

\* SELECT tag, w FROM users: no entity has a property w
MissingColumnSql == <<"S","E","L","E","C","T"," ","t","a","g",","," ","w">> \o FROM_ \o Kind

\* SELECT SUM(age), SUM(floor) FROM users: both aggregates take the alias SUM
SharedAliasSql ==
    <<"S","E","L","E","C","T"," ">> \o SUM \o <<"(","a","g","e",")",","," ">>
    \o SUM \o <<"(","f","l","o","o","r",")">> \o FROM_ \o Kind

\* SELECT * FROM (SELECT * FROM (SELECT * FROM users) AS a) AS b
NestedSql ==
    SELECT_STAR_FROM \o <<"(">> \o SELECT_STAR_FROM \o <<"(">> \o SELECT_STAR_FROM \o Kind
    \o <<")"," ","A","S"," ","a",")"," ","A","S"," ","b">>

AGE_GT_20 == <<"a","g","e"," ",">"," ","2","0">>

\* SELECT * FROM users WHERE age > 20 ORDER BY age LIMIT 1 OFFSET 1
SortedPageSql ==
    SELECT_STAR_FROM \o Kind \o WHERE_ \o AGE_GT_20 \o ORDER_BY_ \o NAge
    \o LIMIT_ \o <<"1">> \o OFFSET_ \o <<"1">>

\* SELECT tag, id FROM users WHERE age > 20 ORDER BY age
SortedKeysSql ==
    <<"S","E","L","E","C","T"," ","t","a","g",","," ","i","d">> \o FROM_ \o Kind
    \o WHERE_ \o AGE_GT_20 \o ORDER_BY_ \o NAge

\* SELECT floor FROM users ORDER BY age DESC LIMIT 2
TopFloorsSql ==
    <<"S","E","L","E","C","T"," ">> \o NFloor \o FROM_ \o Kind
    \o ORDER_BY_ \o NAge \o <<" ","D","E","S","C">> \o LIMIT_ \o <<"2">>

\* SELECT * FROM users WHERE id = 2
KeyEqualSql == SELECT_STAR_FROM \o Kind \o WHERE_ \o <<"i","d"," ","="," ","2">>

\* the statements of the first specification
CoreStatements ==
    <<AllSql, GtSql, OrSql, OrFloorSql, PagedOrSql, ProjectedOrSql, CountOrSql,
      AggregateSql, KindlessSql, OrderedSql, DerivedSql>>

\* statements of further shapes, executed in a specification of their own
ShapeStatements ==
    <<CountUpToSql(0), CountUpToSql(2), AggregateUpToSql, DistinctSql, DistinctOnSql,
      RepeatedSql, MissingColumnSql, SharedAliasSql, NestedSql>>

\* statements that filter, sort, paginate and project, executed in a
\* specification of their own
PipelineStatements == <<SortedPageSql, SortedKeysSql, TopFloorsSql, KeyEqualSql>>

\* FROM (SELECT * FROM users) AS t GROUP BY tag
OVER_USERS_BY_TAG ==
    FROM_ \o <<"(">> \o SELECT_STAR_FROM \o Kind \o <<")"," ","A","S"," ","t">>
    \o GROUP_BY_ \o NTag

MAX_AGE_AS_M == MAX \o <<"(">> \o NAge \o <<")"," ","A","S"," ","m">>

COUNT_AS_C == COUNT \o <<"(","*",")"," ","A","S"," ","c">>

\* SELECT tag, MAX(age) AS m FROM (SELECT * FROM users) AS t GROUP BY tag
GroupMaxSql == <<"S","E","L","E","C","T"," ">> \o NTag \o <<",", " ">> \o MAX_AGE_AS_M \o OVER_USERS_BY_TAG

\* SELECT tag, COUNT(*) AS c FROM (SELECT * FROM users) AS t GROUP BY tag
GroupCountSql == <<"S","E","L","E","C","T"," ">> \o NTag \o <<",", " ">> \o COUNT_AS_C \o OVER_USERS_BY_TAG

\* SELECT tag, MAX(age) AS m, COUNT(*) AS c FROM (SELECT * FROM users) AS t GROUP BY tag
GroupMaxCountSql ==
    <<"S","E","L","E","C","T"," ">> \o NTag \o <<",", " ">> \o MAX_AGE_AS_M \o <<",", " ">> \o COUNT_AS_C
    \o OVER_USERS_BY_TAG

\* SELECT tag, COUNT(*) AS c, MAX(age) AS m FROM (SELECT * FROM users) AS t GROUP BY tag
GroupCountMaxSql ==
    <<"S","E","L","E","C","T"," ">> \o NTag \o <<",", " ">> \o COUNT_AS_C \o <<",", " ">> \o MAX_AGE_AS_M
    \o OVER_USERS_BY_TAG

\* the derived-table statements with a GROUP BY
GroupStatements == <<GroupMaxSql, GroupCountSql, GroupMaxCountSql, GroupCountMaxSql>>

\* EXPLAIN SELECT * FROM users: a text that does not begin with SELECT, INSERT,
\* UPDATE or DELETE and is sent to the service as a query
ExplainSql == <<"E","X","P","L","A","I","N"," ">> \o SELECT_STAR_FROM \o Kind

\* statements that are no SELECT, next to one that is
ForeignStatements == <<ExplainSql, AllSql>>

Statements ==
    CoreStatements \o ShapeStatements \o PipelineStatements \o GroupStatements
    \o ForeignStatements

\* what execute does to a new cursor, per statement, answer statuses and
\* size of the kind
Executed ==
    [i \in 1..Len(Statements), s1 \in Statuses, s2 \in Statuses, n \in 0..MaxEntities |->
        ExecuteQuery(NewCursor, Statements[i], s1, s2, Kind, KindOf(n))]

(***************************************************************************)
(* INSERT, UPDATE and DELETE.  The statement is the tree sqlglot.parse_one *)
(* returns.  An expression node is [node, this, is_string]: node is the    *)
(* sqlglot class, this the text of its first argument (for a Literal the   *)
(* literal text, for a Column or a Placeholder the name, for any other     *)
(* node the SQL text str(val_expr.this) yields).  A predicate is           *)
(* [node, left, right] over expression nodes.  The parsed statement is     *)
(*   [node, where, expressions]                                            *)
(* where expressions is the SET list, a sequence of EQ predicates.         *)
(* parameters is a function from parameter names to Python values.         *)
(***************************************************************************)
Node(node, this, is_string) == [node |-> node, this |-> this, is_string |-> is_string]

NumberLiteral(txt) == Node("Literal", txt, FALSE)

StringLiteral(txt) == Node("Literal", txt, TRUE)

Column(name) == Node("Column", name, FALSE)

Placeholder(name) == Node("Placeholder", name, FALSE)

Parameter(name) == Node("Parameter", name, FALSE)

Null == Node("Null", <<>>, FALSE)

\* exp.Boolean: this is True or False
Boolean(b) == Node("Boolean", IF b THEN <<"T","r","u","e">> ELSE <<"F","a","l","s","e">>, FALSE)

Binary(node, left, right) == [node |-> node, left |-> left, right |-> right]

\* parsed.args.get("where") is None
NoWhere == Binary("None", Null, Null)

\* Expression.name: the text of "this" when it is a string, an identifier
\* or a literal, and "" otherwise
NameOf(e) == IF e.node \in {"Column", "Literal", "Placeholder"} THEN e.this ELSE <<>>

ToLower(c) == IF c \in Range(UpperChars) THEN LowerChars[IndexIn(UpperChars, c)] ELSE c

Lower(s) == [i \in DOMAIN s |-> ToLower(s[i])]

ID == <<"i","d">>

\* int(x) of a parameter value; ErrV stands for ValueError and TypeError
IntOf(v) ==
    IF v.t = "int" \/ v.t = "bool" THEN IntV(v.n)
    ELSE IF v.t = "float"
    THEN IntV(IF v.n >= 0 THEN v.n \div 10 ELSE 0 - ((0 - v.n) \div 10))
    ELSE IF v.t = "str" THEN PyInt(v.s)
    ELSE ErrV

\* Cursor._parse_key_value: the key id, NoneV for None, ErrV for an exception
ParseKeyValue(val_expr, parameters) ==
    IF val_expr.node = "Literal"
    THEN IF ~val_expr.is_string THEN PyInt(val_expr.this) ELSE NoneV
    ELSE IF val_expr.node = "Placeholder"
    THEN IF val_expr.this \in DOMAIN parameters THEN IntOf(parameters[val_expr.this])
         ELSE IF StartsWith(val_expr.this, ":") /\ Tail(val_expr.this) \in DOMAIN parameters
         THEN IntOf(parameters[Tail(val_expr.this)])
         ELSE NoneV
    ELSE IF val_expr.node = "Parameter"
    THEN IF val_expr.this \in DOMAIN parameters THEN IntOf(parameters[val_expr.this])
         ELSE NoneV
    ELSE NoneV

\* the mutation of _extract_key_id_from_where that takes the key from any
\* predicate over any column
AnyPredicate(where_expr, parameters) == ParseKeyValue(where_expr.right, parameters)

\* Cursor._extract_key_id_from_where
ExtractKeyIdFromWhere(where_expr, parameters) ==
    IF where_expr.node = "EQ" /\ Lower(NameOf(where_expr.left)) = ID
    THEN ParseKeyValue(where_expr.right, parameters)
    ELSE NoneV

\* Cursor._parse_update_value: the Python value stored for a SET expression
ParseUpdateValue(val_expr, parameters) ==
    IF val_expr.node = "Literal"
    THEN IF val_expr.is_string THEN StrV(val_expr.this)
         ELSE IF \E i \in DOMAIN val_expr.this : val_expr.this[i] = "."
         THEN PyFloat(val_expr.this)
         ELSE PyInt(val_expr.this)
    ELSE IF val_expr.node = "Null" THEN NoneV
    ELSE IF val_expr.node = "Boolean" THEN BoolV(val_expr.this = <<"T","r","u","e">>)
    ELSE IF val_expr.node = "Placeholder"
    THEN IF val_expr.this \in DOMAIN parameters THEN parameters[val_expr.this]
         ELSE IF StartsWith(val_expr.this, ":") /\ Tail(val_expr.this) \in DOMAIN parameters
         THEN parameters[Tail(val_expr.this)]
         ELSE NoneV
    ELSE IF val_expr.node = "Parameter"
    THEN IF val_expr.this \in DOMAIN parameters THEN parameters[val_expr.this] ELSE NoneV
    ELSE StrV(val_expr.this)

\* the property value the client library writes for a Python value
ToWire(v) ==
    IF v.t = "int" THEN WInt(v.n)
    ELSE IF v.t = "float" THEN WDouble(v.n)
    ELSE IF v.t = "str" THEN WStr(v.s)
    ELSE IF v.t = "bool" THEN WBool(v.n = 1)
    ELSE WNull

\* the position in the store of the entity under the key, 0 when there is none
IndexOfKey(entities, id) ==
    LET S == {i \in DOMAIN entities : entities[i].id = id}
    IN  IF S = {} THEN 0 ELSE CHOOSE i \in S : TRUE

\* client.put(entity) of an entity read from the store
Put(entities, entity) ==
    [i \in DOMAIN entities |-> IF entities[i].id = entity.id THEN entity ELSE entities[i]]

\* client.delete(key)
Delete(entities, id) == SelectSeq(entities, LAMBDA e : e.id # id)

\* the calls made on the datastore client
Call(name, id) == [name |-> name, id |-> id]

\* for set_expr in parsed.args.get("expressions"): entity[col_name] = value;
\* [ok, props], ok = FALSE when _parse_update_value raised
RECURSIVE ApplySet(_, _, _, _)
ApplySet(props, expressions, parameters, k) ==
    IF k > Len(expressions) THEN [ok |-> TRUE, props |-> props]
    ELSE LET set_expr == expressions[k]
             value == ParseUpdateValue(set_expr.right, parameters)
         IN  IF set_expr.node # "EQ"
             THEN ApplySet(props, expressions, parameters, k + 1)
             ELSE IF value = ErrV THEN [ok |-> FALSE, props |-> props]
             ELSE ApplySet((NameOf(set_expr.left) :> ToWire(value)) @@ props,
                           expressions, parameters, k + 1)

\* what a DML executor returns: the cursor, the store, the client calls
\* made and "ok" or the exception
DmlOut(cur, entities, calls, outcome) ==
    [cur |-> cur, entities |-> entities, calls |-> calls, outcome |-> outcome]

\* a statement that reports one row whatever it found
DmlDoneOne(cur, n) ==
    [cur EXCEPT !.rowcount = 1, !.rows = <<>>, !.iter = TRUE,
                !.description = [set |-> FALSE, names |-> <<>>]]

\* self.rowcount = n; self._query_rows = iter([]); self.description = None
DmlDone(cur, n) ==
    [cur EXCEPT !.rowcount = n, !.rows = <<>>, !.iter = TRUE,
                !.description = [set |-> FALSE, names |-> <<>>]]

\* Cursor._execute_update
ExecuteUpdate(cur, parsed, parameters, entities) ==
    LET key == ExtractKeyIdFromWhere(parsed.where, parameters)
        at == IndexOfKey(entities, key.n)
        r == ApplySet(entities[at].props, parsed.expressions, parameters, 1)
    IN  IF parsed.node # "Update" THEN DmlOut(cur, entities, <<>>, "ProgrammingError")
        ELSE IF parsed.where = NoWhere THEN DmlOut(cur, entities, <<>>, "ProgrammingError")
        ELSE IF key = NoneV \/ key = ErrV
        THEN DmlOut(cur, entities, <<>>, "ProgrammingError")
        ELSE IF at = 0
        THEN DmlOut(DmlDone(cur, 0), entities, <<Call("get", key.n)>>, "ok")
        ELSE IF ~r.ok
        THEN DmlOut(cur, entities, <<Call("get", key.n)>>, "ProgrammingError")
        ELSE DmlOut(DmlDone(cur, 1), Put(entities, [entities[at] EXCEPT !.props = r.props]),
                    <<Call("get", key.n), Call("put", key.n)>>, "ok")

\* Cursor._execute_delete
ExecuteDelete(cur, parsed, parameters, entities) ==
    LET key == ExtractKeyIdFromWhere(parsed.where, parameters)
    IN  IF parsed.node # "Delete" THEN DmlOut(cur, entities, <<>>, "ProgrammingError")
        ELSE IF parsed.where = NoWhere THEN DmlOut(cur, entities, <<>>, "ProgrammingError")
        ELSE IF key = NoneV \/ key = ErrV
        THEN DmlOut(cur, entities, <<>>, "ProgrammingError")
        ELSE DmlOut(DmlDone(cur, 1), Delete(entities, key.n),
                    <<Call("delete", key.n)>>, "ok")

\* Cursor._parse_insert_value: the Python value stored for a VALUES expression
ParseInsertValue(val_expr, parameters) ==
    IF val_expr.node = "Literal"
    THEN IF val_expr.is_string THEN StrV(val_expr.this)
         ELSE IF \E i \in DOMAIN val_expr.this : val_expr.this[i] = "."
         THEN PyFloat(val_expr.this)
         ELSE PyInt(val_expr.this)
    ELSE IF val_expr.node = "Null" THEN NoneV
    ELSE IF val_expr.node = "Boolean" THEN BoolV(val_expr.this = <<"T","r","u","e">>)
    ELSE IF val_expr.node = "Placeholder"
    THEN IF val_expr.this \in DOMAIN parameters THEN parameters[val_expr.this]
         ELSE IF StartsWith(val_expr.this, ":") /\ Tail(val_expr.this) \in DOMAIN parameters
         THEN parameters[Tail(val_expr.this)]
         ELSE NoneV
    ELSE IF val_expr.node = "Parameter"
    THEN IF val_expr.this \in DOMAIN parameters THEN parameters[val_expr.this]
         ELSE NoneV
    ELSE StrV(val_expr.this)

\* values_list: every VALUES tuple parsed, before any entity is written
RowValues(tuples, parameters) ==
    [r \in DOMAIN tuples |->
        [i \in DOMAIN tuples[r] |-> ParseInsertValue(tuples[r][i], parameters)]]

\* for i, col in enumerate(columns): if i < len(row_values): entity[col] = row_values[i]
RECURSIVE RowProps(_, _, _, _)
RowProps(props, columns, row_values, k) ==
    IF k > Len(columns) \/ k > Len(row_values) THEN props
    ELSE RowProps((columns[k] :> ToWire(row_values[k])) @@ props, columns, row_values, k + 1)

\* the id the store gives an incomplete key: one no entity of the kind holds
\* (the least such id from hint on)
AllocateId(entities, hint) ==
    CHOOSE id \in hint..(hint + Len(entities)) :
        /\ IndexOfKey(entities, id) = 0
        /\ \A j \in hint..(id - 1) : IndexOfKey(entities, j) # 0

\* client.put(entity) of an entity with a new key: the store in key order
PutNew(entities, entity) ==
    SelectSeq(entities, LAMBDA e : e.id < entity.id) \o <<entity>>
    \o SelectSeq(entities, LAMBDA e : e.id > entity.id)

\* the loop over values_list: key = client.key(kind), the properties set,
\* client.put(entity), lastrowid = entity.key.id
RECURSIVE InsertRows(_, _, _, _, _)
InsertRows(acc, columns, values_list, hint, k) ==
    IF k > Len(values_list) THEN acc
    ELSE LET Written(id) ==
                 InsertRows(
                     DmlOut([acc.cur EXCEPT !.lastrowid = IntV(id)],
                            PutNew(acc.entities,
                                   [id |-> id,
                                    props |-> RowProps(<<>>, columns, values_list[k], 1)]),
                            Append(acc.calls, Call("put", id)), "ok"),
                     columns, values_list, id + 1, k + 1)
         IN  Written(AllocateId(acc.entities, hint))

\* _execute_insert once the VALUES tuples are parsed
InsertParsed(cur, columns, values_list, entities, hint) ==
    LET Done(r) == DmlOut(DmlDone(r.cur, Len(values_list)), r.entities, r.calls, "ok")
    IN  IF \E r \in DOMAIN values_list : \E i \in DOMAIN values_list[r] :
                values_list[r][i] = ErrV
        THEN DmlOut(cur, entities, <<>>, "ProgrammingError")
        ELSE Done(InsertRows(DmlOut(cur, entities, <<>>, "ok"), columns, values_list, hint, 1))

\* Cursor._execute_insert; hint is where the store's id allocation stands
ExecuteInsert(cur, parsed, parameters, entities, hint) ==
    IF parsed.node # "Insert" THEN DmlOut(cur, entities, <<>>, "ProgrammingError")
    ELSE InsertParsed(cur, parsed.columns, RowValues(parsed.values, parameters),
                      entities, hint)

\* the mutation of execute that runs the statement whether or not the
\* cursor is closed
ExecuteDmlUnchecked(cur, parsed, parameters, entities, hint) ==
    IF parsed.node = "Insert" THEN ExecuteInsert(cur, parsed, parameters, entities, hint)
    ELSE IF parsed.node = "Update" THEN ExecuteUpdate(cur, parsed, parameters, entities)
    ELSE ExecuteDelete(cur, parsed, parameters, entities)

\* Cursor.execute of an INSERT, UPDATE or DELETE statement
ExecuteDml(cur, parsed, parameters, entities, hint) ==
    IF cur.closed THEN DmlOut(cur, entities, <<>>, "Error")
    ELSE IF parsed.node = "Insert" THEN ExecuteInsert(cur, parsed, parameters, entities, hint)
    ELSE IF parsed.node = "Update" THEN ExecuteUpdate(cur, parsed, parameters, entities)
    ELSE ExecuteDelete(cur, parsed, parameters, entities)

(***************************************************************************)
(* State                                                                   *)
(***************************************************************************)
VARIABLES
    store,         \* the entities of the kind, in key order
    theCursor,     \* the cursor
    lastCall,      \* the last call made on the cursor
    stmt,          \* the index in Statements of the last statement executed, 0 for none
    sentRequests,  \* the remote requests the last execute sent
    lastOutcome,   \* "ok" or the exception the last call raised
    appended,      \* how many warnings the last execute appended
    fetched,       \* the rows the last fetch returned
    asked,         \* how many rows the last fetch asked for
    delivered,     \* the rows the fetches returned since the last execute, in call order
    evalCond,      \* the condition text given to the evaluator
    evalRow,       \* the row given to the evaluator
    evalRes,       \* [fn, r]: the evaluator function applied and its result
    dml,           \* [parsed, parameters]: the last UPDATE or DELETE statement
    before,        \* the store before the last UPDATE or DELETE
    clientCalls,   \* the calls the last UPDATE or DELETE made on the datastore client
    dmlCount,      \* how many INSERT, UPDATE and DELETE statements were executed
    fnArgs,        \* the arguments given to a function called on its own
    fnRes,         \* [fn, out]: the function called on its own and what it returned
    otherCursor    \* a second cursor of the same connection

vars == <<store, theCursor, lastCall, stmt, sentRequests, lastOutcome, appended, fetched,
          asked, delivered,
          evalCond, evalRow, evalRes, dml, before, clientCalls, dmlCount, fnArgs, fnRes,
          otherCursor>>

cursorVars == <<theCursor, lastCall, stmt, sentRequests, lastOutcome, appended, fetched,
                asked, delivered>>

evalVars == <<evalCond, evalRow, evalRes>>

dmlVars == <<dml, before, clientCalls, dmlCount>>

fnVars == <<fnArgs, fnRes>>

NoDml ==
    [parsed |-> [node |-> "None", where |-> NoWhere, expressions |-> <<>>],
     parameters |-> <<>>]

IdleCursor ==
    /\ theCursor = NewCursor
    /\ otherCursor = NewCursor
    /\ lastCall = "none"
    /\ stmt = 0
    /\ sentRequests = <<>>
    /\ lastOutcome = "ok"
    /\ appended = 0
    /\ fetched = <<>>
    /\ asked = 0
    /\ delivered = <<>>

IdleEval ==
    /\ evalCond = <<>>
    /\ evalRow = <<>>
    /\ evalRes = [fn |-> "none", r |-> "F"]

IdleDml ==
    /\ dml = NoDml
    /\ before = <<>>
    /\ clientCalls = <<>>
    /\ dmlCount = 0

NotCalled == [fn |-> "none", out |-> <<>>]

IdleFn ==
    /\ fnArgs = <<>>
    /\ fnRes = NotCalled

(***************************************************************************)
(* The cursor over a kind that does not change: execute, fetch, close      *)
(***************************************************************************)
Init ==
    /\ \E n \in 0..MaxEntities : store = KindOf(n)
    /\ IdleCursor
    /\ IdleEval
    /\ IdleDml
    /\ IdleFn

\* Cursor.execute(statement) with the answers s1, s2 of the remote service
Execute(i, s1, s2) ==
    LET Run(r) ==
            IF theCursor.closed
            THEN /\ theCursor' = theCursor
                 /\ sentRequests' = <<>>
                 /\ lastOutcome' = "Error"
                 /\ appended' = 0
            ELSE /\ theCursor' =
                      IF r.outcome = "ok"
                      THEN [r.cur EXCEPT !.warnings = theCursor.warnings \o @,
                                         !.lastrowid = theCursor.lastrowid]
                      ELSE [theCursor EXCEPT !.warnings = @ \o r.cur.warnings]
                 /\ sentRequests' = r.requests
                 /\ lastOutcome' = r.outcome
                 /\ appended' = Len(r.cur.warnings)
    IN  /\ store = KindOf(Len(store))
        /\ Len(theCursor.warnings) + 2 <= MaxWarnings
        /\ lastCall' = "execute"
        /\ stmt' = i
        /\ fetched' = <<>>
        /\ asked' = 0
        /\ delivered' = <<>>
        /\ Run(Executed[i, s1, s2, Len(store)])
        /\ UNCHANGED <<store, evalVars, dmlVars, fnVars, otherCursor>>

\* the mutation of the fetches that reads the rows from the start at every
\* call, the iterator left where it was
FetchFromStart(name, size) ==
    /\ lastCall' = name
    /\ asked' = size
    /\ lastOutcome' = IF theCursor.closed THEN "Error"
                      ELSE IF ~theCursor.iter THEN "TypeError" ELSE "ok"
    /\ fetched' = IF theCursor.closed \/ ~theCursor.iter THEN <<>>
                  ELSE SubSeq(theCursor.rows, 1, Min(size, Len(theCursor.rows)))
    /\ delivered' = delivered \o fetched'
    /\ UNCHANGED <<store, theCursor, stmt, sentRequests, appended, evalVars, dmlVars, fnVars, otherCursor>>

\* fetchone, fetchmany(size) and fetchall share the iterator _query_rows;
\* fetchone returning None is the fetch of no row
Fetch(name, size) ==
    LET k == Min(size, Len(theCursor.rows))
    IN  /\ lastCall' = name
        /\ asked' = size
        /\ IF theCursor.closed
           THEN /\ lastOutcome' = "Error"
                /\ fetched' = <<>>
                /\ theCursor' = theCursor
           ELSE IF ~theCursor.iter
           THEN /\ lastOutcome' = "TypeError"
                /\ fetched' = <<>>
                /\ theCursor' = theCursor
           ELSE /\ lastOutcome' = "ok"
                /\ fetched' = SubSeq(theCursor.rows, 1, k)
                /\ theCursor' = [theCursor EXCEPT !.rows = SubSeq(@, k + 1, Len(@))]
        /\ delivered' = delivered \o fetched'
        /\ UNCHANGED <<store, stmt, sentRequests, appended, evalVars, dmlVars, fnVars, otherCursor>>

FetchOne == Fetch("fetchone", 1)

FetchMany == \E size \in 1..MaxFetch : Fetch("fetchmany", size)

FetchAll == Fetch("fetchall", Len(theCursor.rows))

\* Cursor.close
Close ==
    /\ theCursor' = [theCursor EXCEPT !.closed = TRUE]
    /\ lastCall' = "close"
    /\ lastOutcome' = "ok"
    /\ UNCHANGED <<store, stmt, sentRequests, appended, fetched, asked, delivered,
                   evalVars, dmlVars, fnVars, otherCursor>>

\* Connection.cursor: a new cursor replaces the one in use
OpenCursor ==
    /\ lastCall # "none"
    /\ theCursor' = NewCursor
    /\ lastCall' = "none"
    /\ stmt' = 0
    /\ sentRequests' = <<>>
    /\ lastOutcome' = "ok"
    /\ appended' = 0
    /\ fetched' = <<>>
    /\ asked' = 0
    /\ delivered' = <<>>
    /\ UNCHANGED <<store, evalVars, dmlVars, fnVars, otherCursor>>

ExecuteAny ==
    \E i \in 1..Len(CoreStatements), s1 \in Statuses, s2 \in Statuses : Execute(i, s1, s2)

Next ==
    \/ ExecuteAny
    \/ FetchOne
    \/ FetchMany
    \/ FetchAll
    \/ Close
    \/ OpenCursor

Spec == Init /\ [][Next]_vars

\* the same cursor over the statements of further shapes
ExecuteShape ==
    \E i \in (Len(CoreStatements) + 1)..(Len(CoreStatements) + Len(ShapeStatements)),
       s1 \in Statuses, s2 \in Statuses :
        Execute(i, s1, s2)

NextShapes ==
    \/ ExecuteShape
    \/ FetchOne
    \/ FetchMany
    \/ FetchAll
    \/ Close
    \/ OpenCursor

SpecShapes == Init /\ [][NextShapes]_vars

\* the same cursor over the statements that filter, sort, paginate and project
ExecutePipeline ==
    \E i \in (Len(CoreStatements) + Len(ShapeStatements) + 1)
                 ..(Len(CoreStatements) + Len(ShapeStatements) + Len(PipelineStatements)),
       s1 \in Statuses, s2 \in Statuses :
        Execute(i, s1, s2)

NextPipeline ==
    \/ ExecutePipeline
    \/ FetchOne
    \/ FetchMany
    \/ FetchAll
    \/ Close
    \/ OpenCursor

SpecPipeline == Init /\ [][NextPipeline]_vars

\* Cursor.execute of a derived-table statement with a GROUP BY
ExecuteGrouped ==
    \E i \in (Len(Statements) - Len(ForeignStatements) - Len(GroupStatements) + 1)
                 ..(Len(Statements) - Len(ForeignStatements)),
       s1 \in Statuses, s2 \in Statuses :
        Execute(i, s1, s2)

NextGrouped ==
    \/ ExecuteGrouped
    \/ FetchOne
    \/ FetchMany
    \/ FetchAll
    \/ Close
    \/ OpenCursor

SpecGrouped == Init /\ [][NextGrouped]_vars

\* Cursor.execute of a statement that is no SELECT, or of SELECT * FROM users
ExecuteForeign ==
    \E i \in (Len(Statements) - Len(ForeignStatements) + 1)..Len(Statements),
       s1 \in Statuses, s2 \in Statuses :
        Execute(i, s1, s2)

NextForeign ==
    \/ ExecuteForeign
    \/ FetchOne
    \/ FetchMany
    \/ FetchAll
    \/ Close
    \/ OpenCursor

SpecForeign == Init /\ [][NextForeign]_vars

\* C29: an open cursor becomes a closed one by close() alone: execute and
\* the fetches leave an open cursor open
C29_OnlyCloseCloses ==
    [][(~theCursor.closed /\ theCursor'.closed) => lastCall' = "close"]_vars

(***************************************************************************)
(* Reference reading of the statements: what their WHERE predicate means,  *)
(* with OR below AND below the comparisons                                 *)
(***************************************************************************)
Gt(col, n) == [k |-> "gt", col |-> col, v |-> IntV(n)]

Eq(col, v) == [k |-> "eq", col |-> col, v |-> v]

Or(l, r) == [k |-> "or", l |-> l, r |-> r]

AgeOrTagB == Or(Gt(NAge, 20), Eq(NTag, StrV(<<"b">>)))

AgeOrTagC == Or(Gt(NAge, 20), Eq(NTag, StrV(<<"c">>)))

FloorOrAge == Or(Eq(NFloor, IntV(9)), Gt(NAge, 99))

\* the value of a property of an entity
Prop(e, col) == IF col \in DOMAIN e.props THEN ParseProperties(e.props[col]) ELSE NoneV

RECURSIVE Holds(_, _)
Holds(e, p) ==
    IF p.k = "or" THEN Holds(e, p.l) \/ Holds(e, p.r)
    ELSE IF p.k = "gt" THEN Prop(e, p.col).t = p.v.t /\ Prop(e, p.col).n > p.v.n
    ELSE Prop(e, p.col) = p.v

\* the rows of the entities of the whole kind that satisfy p, every column
Satisfying(p) == ParseEntity(SelectSeq(store, LAMBDA e : Holds(e, p)), <<>>).rows

\* execute has just returned normally from the statement
ReturnedFrom(sql) ==
    lastCall = "execute" /\ stmt # 0 /\ Statements[IF stmt = 0 THEN 1 ELSE stmt] = sql
    /\ lastOutcome = "ok"

\* C2: a SELECT * whose WHERE contains OR is flagged for client-side
\* filtering and returns exactly the rows of the whole kind that satisfy the
\* predicate read with OR at the lowest precedence
C2_OrRowsExact ==
    /\ \A sql \in {OrSql, OrFloorSql} : NeedsClientSideFilter(ConvertSqlToGql(sql))
    /\ ReturnedFrom(OrSql) => theCursor.rows = Satisfying(AgeOrTagB)
    /\ ReturnedFrom(OrFloorSql) => theCursor.rows = Satisfying(FloorOrAge)

\* C3: a pre-flagged statement with LIMIT 1 OFFSET 1 returns the second of
\* the filtered rows of the whole kind (filter first, paginate afterwards)
C3_FilterThenPaginate ==
    ReturnedFrom(PagedOrSql)
        => theCursor.rows = Paginate(Satisfying(AgeOrTagC), [limit |-> 1, offset |-> 1])

\* C4: a projection keeps exactly the rows whose entity satisfies the
\* predicate, also when the predicate reads a column that is not selected
C4_FilterSeesEveryProperty ==
    ReturnedFrom(ProjectedOrSql)
        => Len(theCursor.rows) = Len(Satisfying(AgeOrTagC))

\* the translator flags the statement (or the base query of the aggregation)
PreFlagged(sql) ==
    IF IsAggregationQuery(sql)
    THEN NeedsClientSideFilter(ConvertSqlToGql(ParseAggregationQuery(sql).base))
    ELSE NeedsClientSideFilter(ConvertSqlToGql(sql))

\* C5: an execute that produced its result by client-side processing (the
\* primary request failed, or the statement was pre-flagged) has appended a
\* warning
C5_FallbackNeverSilent ==
    (/\ lastCall = "execute"
     /\ lastOutcome = "ok"
     /\ sentRequests # <<>>
     /\ (sentRequests[1].status # 200 \/ PreFlagged(Statements[stmt])))
        => appended >= 1

\* C6: an execute sends at most two remote requests, and a second one only
\* after the first was answered with a status other than 200
C6_AtMostTwoRequests ==
    /\ Len(sentRequests) <= 2
    /\ Len(sentRequests) = 2 => sentRequests[1].status # 200

\* an aggregation whose primary request failed and whose fallback was sent
C6_Witness ==
    /\ lastCall = "execute"
    /\ stmt # 0
    /\ IsAggregationQuery(Statements[IF stmt = 0 THEN 1 ELSE stmt])
    /\ Len(sentRequests) = 2

\* C7: for a statement with a FROM kind whose primary request was answered
\* with a status other than 200, one fallback request follows; execute
\* returns normally when it is answered 200 and raises OperationalError
\* exactly when it is not
C7_PrimaryFailureNotSurfaced ==
    (/\ lastCall = "execute"
     /\ sentRequests # <<>>
     /\ sentRequests[1].status # 200
     /\ TableName(Statements[stmt]) # <<>>)
        => /\ Len(sentRequests) = 2
           /\ lastOutcome = "OperationalError" <=> sentRequests[2].status # 200
           /\ sentRequests[2].status = 200 => lastOutcome = "ok"

\* the primary request failed, the fallback answered 200, rows came back
C7_Witness ==
    /\ lastCall = "execute"
    /\ Len(sentRequests) = 2
    /\ sentRequests[1].status # 200
    /\ sentRequests[2].status = 200
    /\ lastOutcome = "ok"
    /\ theCursor.rows # <<>>

(***************************************************************************)
(* The evaluator alone: one condition text against one row                 *)
(***************************************************************************)
NNum == <<"n">>

NHours == <<"h">>

NStr == <<"s">>

\* the columns of the rows given to the evaluator: an Integer, a Double, a String
EvalFields == <<NNum, NHours, NStr>>

EvalRows ==
    {<<n, h, StrV(<<"a">>)>> :
        n \in {IntV(k) : k \in 1..MaxNumber} \cup {NoneV},
        h \in {FloatV(10 * k) : k \in 1..MaxNumber} \cup {FloatV(15)}}

\* "col op k" and "col op k.0"
NumAtom(col, rel, k, double) ==
    col \o <<" ">> \o rel \o <<" ">> \o NatText(k)
    \o (IF double THEN <<".","0">> ELSE <<>>)

ComparisonAtoms ==
    {NumAtom(col, rel, k, d) :
        col \in {NNum, NHours}, rel \in {<<"=">>, <<">">>}, k \in 1..MaxNumber, d \in BOOLEAN}

\* atoms of no supported comparison shape
UnmatchedAtoms ==
    {<<"n">>, <<"n"," ","L","I","K","E"," ","2">>, <<"s"," ","~"," ","'","a","'">>}

\* ordering comparisons between a number and a string
TypeErrorAtoms ==
    {<<"n"," ",">"," ","'","a","'">>, <<"s"," ","<"," ","2">>,
     <<"h"," ",">","="," ","'","a","'">>}

\* atoms whose literal cannot be parsed: _parse_literal raises
RaisingAtoms ==
    {<<"n"," ","="," ","D","A","T","E","T","I","M","E","(","'","x","'",")">>}

CompoundConditions ==
    {<<"n"," ","="," ","1"," ","A","N","D"," ","s"," ","="," ","'","a","'">>,
     <<"n"," ","="," ","2"," ","O","R"," ","s"," ","="," ","'","z","'">>,
     <<"(","n"," ","="," ","1"," ","O","R"," ","h"," ",">"," ","2",")"," ","A","N","D"," ","s"," ","="," ","'","a","'">>}

EvalConditions ==
    ComparisonAtoms \cup UnmatchedAtoms \cup TypeErrorAtoms \cup RaisingAtoms
    \cup CompoundConditions

InitEval ==
    /\ store = <<>>
    /\ IdleCursor
    /\ IdleDml
    /\ IdleFn
    /\ evalCond \in EvalConditions
    /\ evalRow \in EvalRows
    /\ evalRes = [fn |-> "none", r |-> "F"]

\* Cursor._eval_simple_condition(condition, context)
EvalSimple ==
    /\ evalRes.fn = "none"
    /\ evalRes' = [fn |-> "simple",
                   r  |-> EvalSimpleCondition(RowContext(evalRow, EvalFields), evalCond)]
    /\ UNCHANGED <<store, cursorVars, dmlVars, fnVars, otherCursor, evalCond, evalRow>>

\* Cursor._evaluate_where(row, fields, where_clause)
EvalWhere ==
    /\ evalRes.fn = "none"
    /\ evalRes' = [fn |-> "where",
                   r  |-> B2R(EvaluateWhere(evalRow, EvalFields, evalCond))]
    /\ UNCHANGED <<store, cursorVars, dmlVars, fnVars, otherCursor, evalCond, evalRow>>

NextEval ==
    \/ EvalSimple
    \/ EvalWhere

SpecEval == InitEval /\ [][NextEval]_vars

\* the value the row holds in the column
Cell(col) == evalRow[FirstIndex(EvalFields, col)]

\* C1: Integer n and Double n.0 never compare equal: on a row whose Integer
\* column holds k the atom "n = k.0" is false, and on a row whose Double
\* column holds k.0 the atom "h = k" is false
C1_IntegerNeverEqualsDouble ==
    \A k \in 1..MaxNumber :
        /\ (evalRes.fn = "simple" /\ evalCond = NumAtom(NNum, <<"=">>, k, TRUE)
            /\ Cell(NNum) = IntV(k)) => evalRes.r = "F"
        /\ (evalRes.fn = "simple" /\ evalCond = NumAtom(NHours, <<"=">>, k, FALSE)
            /\ Cell(NHours) = FloatV(10 * k)) => evalRes.r = "F"

\* C8 as stated: an atom of no supported shape, or one whose comparison
\* raises a type error, evaluates false and the row is excluded
C8_FailClosed ==
    (evalRes.fn # "none" /\ evalCond \in UnmatchedAtoms \cup TypeErrorAtoms)
        => evalRes.r = "F"

\* C8 amended: an atom whose comparison raises a type error evaluates false,
\* an atom whose literal cannot be parsed excludes the row, and an atom of
\* no supported shape evaluates true (the row is kept)
C8_TypeErrorsFailClosed ==
    /\ (evalRes.fn # "none" /\ evalCond \in TypeErrorAtoms) => evalRes.r = "F"
    /\ (evalRes.fn = "where" /\ evalCond \in RaisingAtoms) => evalRes.r = "F"
    /\ (evalRes.fn # "none" /\ evalCond \in UnmatchedAtoms) => evalRes.r = "T"

\* a number was compared with a string and the atom came out false
C8_Witness ==
    /\ evalRes.fn = "simple"
    /\ evalCond = <<"n"," ",">"," ","'","a","'">>
    /\ Cell(NNum) # NoneV
    /\ evalRes.r = "F"

(***************************************************************************)
(* UPDATE and DELETE through the cursor                                    *)
(***************************************************************************)
\* the most UPDATE and DELETE statements executed on one store
MaxDml == 2

NId1 == <<"i","d","_","1">>

NAge1 == <<"a","g","e","_","1">>

NNick == <<"n","i","c","k">>

NActive == <<"a","c","t","i","v","e">>

Eq_(left, right) == Binary("EQ", left, right)

\* WHERE id = k for the keys the kind can hold
LiteralKeyWheres == {Eq_(Column(ID), NumberLiteral(NatText(k))) : k \in 1..MaxEntities}

\* WHERE id = :id_1
PlaceholderKeyWhere == Eq_(Column(ID), Placeholder(NId1))

\* WHERE ID = 1
UpperKeyWhere == Eq_(Column(<<"I","D">>), NumberLiteral(<<"1">>))

\* a missing WHERE and the WHERE clauses that are not an equality of id
\* with an integer literal or a bound parameter: age = 1, id > 1, id < 1,
\* id = 1 AND age = 30, id = 1 OR id = 2, id IN (1), id = '1', id = 1.5,
\* id = -1, 1 = id, id = age, id = NULL, id = TRUE
OtherWheres ==
    {NoWhere,
     Eq_(Column(NAge), NumberLiteral(<<"1">>)),
     Binary("GT", Column(ID), NumberLiteral(<<"1">>)),
     Binary("LT", Column(ID), NumberLiteral(<<"1">>)),
     Binary("And", Node("EQ", ID, FALSE), Node("EQ", NAge, FALSE)),
     Binary("Or", Node("EQ", ID, FALSE), Node("EQ", ID, FALSE)),
     Binary("In", Column(ID), NumberLiteral(<<"1">>)),
     Eq_(Column(ID), StringLiteral(<<"1">>)),
     Eq_(Column(ID), NumberLiteral(<<"1",".","5">>)),
     Eq_(Column(ID), Node("Neg", <<"1">>, FALSE)),
     Eq_(NumberLiteral(<<"1">>), Column(ID)),
     Eq_(Column(ID), Column(NAge)),
     Eq_(Column(ID), Null),
     Eq_(Column(ID), Boolean(TRUE))}

\* the SET lists: age = 40; tag = 'z'; age = :age_1; age = NULL;
\* nick = 'n', age = 4.5; active = TRUE; age = -5; age = floor
SetLists ==
    {<<Eq_(Column(NAge), NumberLiteral(<<"4","0">>))>>,
     <<Eq_(Column(NTag), StringLiteral(<<"z">>))>>,
     <<Eq_(Column(NAge), Placeholder(NAge1))>>,
     <<Eq_(Column(NAge), Null)>>,
     <<Eq_(Column(NNick), StringLiteral(<<"n">>)),
       Eq_(Column(NAge), NumberLiteral(<<"4",".","5">>))>>,
     <<Eq_(Column(NActive), Boolean(TRUE))>>,
     <<Eq_(Column(NAge), Node("Neg", <<"5">>, FALSE))>>,
     <<Eq_(Column(NAge), Column(NFloor))>>}

\* the parameter bindings: id_1 and age_1 bound to integers, id_1 bound to
\* a text that is no number, nothing bound
BoundParameters == (NId1 :> IntV(2)) @@ (NAge1 :> IntV(41))

TextParameters == (NId1 :> StrV(<<"x">>)) @@ (NAge1 :> IntV(41))

NoParameters == <<>>

Update(where, expressions) ==
    [node |-> "Update", where |-> where, expressions |-> expressions]

DeleteFrom(where) == [node |-> "Delete", where |-> where, expressions |-> <<>>]

Bind(parsed, parameters) == [parsed |-> parsed, parameters |-> parameters]

\* the UPDATE statements given to execute, with their parameters
Updates ==
    {Bind(Update(w, sl), BoundParameters) : w \in LiteralKeyWheres \cup {UpperKeyWhere},
                                            sl \in SetLists}
    \cup {Bind(Update(PlaceholderKeyWhere, sl), p) :
            sl \in {s2 \in SetLists : Len(s2) = 2},
            p \in {BoundParameters, TextParameters, NoParameters}}
    \cup {Bind(Update(w, sl), NoParameters) :
            w \in OtherWheres, sl \in {s1 \in SetLists : s1[1].right.this = <<"z">>}}

\* the DELETE statements given to execute, with their parameters
Deletes ==
    {Bind(DeleteFrom(w), NoParameters) : w \in LiteralKeyWheres \cup OtherWheres}
    \cup {Bind(DeleteFrom(PlaceholderKeyWhere), p) :
            p \in {BoundParameters, TextParameters, NoParameters}}

\* parse_one of an INSERT: the column names of the Schema and the tuples of
\* the VALUES clause
Insert(columns, values) ==
    [node |-> "Insert", where |-> NoWhere, expressions |-> <<>>,
     columns |-> columns, values |-> values]

\* the INSERT statements given to execute, with their parameters:
\* (tag, age) VALUES ('z', 40); (id, tag) VALUES (k, 'z') for a key the kind
\* may hold and for one it does not; (id, tag) VALUES (:id_1, 'z');
\* (tag) VALUES ('a'), ('b'); (tag, age) VALUES ('z'); VALUES (1)
Inserts ==
    {Bind(Insert(<<NTag, NAge>>, << <<StringLiteral(<<"z">>), NumberLiteral(<<"4","0">>)>> >>),
          NoParameters),
     Bind(Insert(<<ID, NTag>>, << <<Placeholder(NId1), StringLiteral(<<"z">>)>> >>),
          BoundParameters),
     Bind(Insert(<<NTag>>, << <<StringLiteral(<<"a">>)>>, <<StringLiteral(<<"b">>)>> >>),
          NoParameters),
     Bind(Insert(<<NTag, NAge>>, << <<StringLiteral(<<"z">>)>> >>), NoParameters),
     Bind(Insert(<<>>, << <<NumberLiteral(<<"1">>)>> >>), NoParameters)}
    \cup {Bind(Insert(<<ID, NTag>>, << <<NumberLiteral(NatText(k)), StringLiteral(<<"z">>)>> >>),
                NoParameters) : k \in {1, MaxEntities + 2}}

\* where the id allocation of the store may stand when a statement arrives
AllocationHints == {1, MaxEntities + 2}

InitDml ==
    /\ \E n \in 0..MaxEntities : store = KindOf(n)
    /\ IdleCursor
    /\ IdleEval
    /\ IdleDml
    /\ IdleFn

\* Cursor.execute(statement, parameters) of an INSERT, UPDATE or DELETE
\* statement
ExecuteStatement(call, hint) ==
    LET Run(r) ==
            /\ store' = r.entities
            /\ clientCalls' = r.calls
            /\ theCursor' = r.cur
            /\ lastOutcome' = r.outcome
    IN  /\ dmlCount < MaxDml
        /\ dml' = call
        /\ before' = store
        /\ dmlCount' = dmlCount + 1
        /\ Run(ExecuteDml(theCursor, call.parsed, call.parameters, store, hint))
        /\ lastCall' = "execute"
        /\ stmt' = 0
        /\ sentRequests' = <<>>
        /\ appended' = 0
        /\ fetched' = <<>>
        /\ asked' = 0
        /\ delivered' = <<>>
        /\ UNCHANGED <<evalVars, fnVars, otherCursor>>

ExecuteInsertStatement ==
    \E call \in Inserts, hint \in AllocationHints : ExecuteStatement(call, hint)

ExecuteUpdateStatement == \E call \in Updates : ExecuteStatement(call, 1)

ExecuteDeleteStatement == \E call \in Deletes : ExecuteStatement(call, 1)

NextDml ==
    \/ ExecuteInsertStatement
    \/ ExecuteUpdateStatement
    \/ ExecuteDeleteStatement
    \/ FetchAll
    \/ Close

SpecDml == InitDml /\ [][NextDml]_vars

(***************************************************************************)
(* Reference reading of an UPDATE or DELETE statement                      *)
(***************************************************************************)
\* the WHERE clause is missing or is not an equality of id with an integer
\* literal or a bound parameter
NotKeyEquality(call) ==
    \/ call.parsed.where \in OtherWheres
    \/ (call.parsed.where = PlaceholderKeyWhere /\ NId1 \notin DOMAIN call.parameters)

\* the key a key equality names
TargetKey(call) ==
    IF call.parsed.where.right.node = "Literal"
    THEN DigitsVal(call.parsed.where.right.this)
    ELSE call.parameters[NId1].n

\* the property value a SET expression denotes on the entity it updates
NewValue(val_expr, parameters, props) ==
    IF val_expr.node = "Literal" /\ val_expr.is_string THEN WStr(val_expr.this)
    ELSE IF val_expr.node = "Literal"
    THEN IF \E i \in DOMAIN val_expr.this : val_expr.this[i] = "."
         THEN WDouble(PyFloat(val_expr.this).n)
         ELSE WInt(DigitsVal(val_expr.this))
    ELSE IF val_expr.node = "Boolean" THEN WBool(val_expr.this = <<"T","r","u","e">>)
    ELSE IF val_expr.node = "Placeholder" THEN ToWire(parameters[val_expr.this])
    ELSE IF val_expr.node = "Neg" THEN WInt(0 - DigitsVal(val_expr.this))
    ELSE IF val_expr.node = "Column" THEN props[val_expr.this]
    ELSE WNull

\* the names the SET list assigns
SetNames(expressions) == {NameOf(expressions[j].left) : j \in DOMAIN expressions}

\* the last call was an execute of a statement on an open cursor
Ran(node) == lastCall = "execute" /\ dml.parsed.node = node /\ ~theCursor.closed

C10_UpdateFrame ==
    (Ran("Update") /\ lastOutcome = "ok" /\ IndexOfKey(before, TargetKey(dml)) # 0)
        => LET k == TargetKey(dml)
               old == before[IndexOfKey(before, k)]
               new == store[IndexOfKey(store, k)]
               sl == dml.parsed.expressions
           IN  /\ Len(store) = Len(before)
               /\ \A i \in DOMAIN store :
                    /\ store[i].id = before[i].id
                    /\ before[i].id # k => store[i] = before[i]
               /\ DOMAIN new.props = DOMAIN old.props \cup SetNames(sl)
               /\ \A name \in DOMAIN old.props \ SetNames(sl) :
                    new.props[name] = old.props[name]
               /\ \A j \in DOMAIN sl :
                    new.props[NameOf(sl[j].left)]
                        = NewValue(sl[j].right, dml.parameters, old.props)

(***************************************************************************)
(* Reference reading of an INSERT statement                                *)
(***************************************************************************)
\* the position of the primary-key column id in the column list, 0 when the
\* list does not bind it
KeyColumn(columns) ==
    LET S == {i \in DOMAIN columns : Lower(columns[i]) = ID}
    IN  IF S = {} THEN 0 ELSE CHOOSE i \in S : TRUE

\* the value the statement binds the primary-key column to, in its one tuple
BoundKey(call) ==
    LET v == call.parsed.values[1][KeyColumn(call.parsed.columns)]
    IN  IF v.node = "Literal" THEN DigitsVal(v.this) ELSE call.parameters[v.this].n

\* C11: after an INSERT of one tuple lastrowid is the id of an entity of the
\* store; when the column list binds the primary-key column id that id is
\* the value bound, and otherwise it is an id the store assigned, one no
\* entity held before
C11_InsertKey ==
    (Ran("Insert") /\ lastOutcome = "ok" /\ Len(dml.parsed.values) = 1)
        => /\ theCursor.lastrowid.t = "int"
           /\ IndexOfKey(store, theCursor.lastrowid.n) # 0
           /\ IF KeyColumn(dml.parsed.columns) # 0
              THEN theCursor.lastrowid.n = BoundKey(dml)
              ELSE IndexOfKey(before, theCursor.lastrowid.n) = 0

\* the last statement was an UPDATE by equality of id with an integer, a
\* literal or a bound one, and the store held no entity under that key
UpdateOfMissingKey ==
    /\ dml.parsed.node = "Update"
    /\ ~NotKeyEquality(dml)
    /\ dml.parsed.where = PlaceholderKeyWhere => dml.parameters[NId1].t = "int"
    /\ IndexOfKey(before, TargetKey(dml)) = 0
    /\ ~theCursor.closed

\* C30: an UPDATE by WHERE id = n of a key under which no entity exists
\* returns without raising, issues no put, leaves the store as it was, sets
\* rowcount to 0, and the fetchall that follows returns no row
C30_UpdateNeverCreates ==
    /\ (lastCall = "execute" /\ UpdateOfMissingKey)
          => /\ lastOutcome = "ok"
             /\ store = before
             /\ \A i \in DOMAIN clientCalls : clientCalls[i].name # "put"
             /\ theCursor.rowcount = 0
             /\ theCursor.iter
             /\ theCursor.rows = <<>>
    /\ (lastCall = "fetchall" /\ UpdateOfMissingKey)
          => /\ lastOutcome = "ok"
             /\ fetched = <<>>
             /\ store = before

\* UPDATE ... WHERE id = 2 ran on a store of one entity, and the fetchall
\* after it returned no row
C30_Witness ==
    /\ lastCall = "fetchall"
    /\ UpdateOfMissingKey
    /\ dml.parsed.where = Eq_(Column(ID), NumberLiteral(<<"2">>))
    /\ Len(before) = 1
    /\ Len(store) = 1
    /\ theCursor.rowcount = 0
    /\ lastOutcome = "ok"

(***************************************************************************)
(* Aggregates through the cursor                                           *)
(***************************************************************************)
\* C12: COUNT_UP_TO(n) over a kind of k entities yields the one row
\* (min(n, k)), for n = 0 and n > 0, for k = 0 and k > 0, in the SELECT form
\* and in the AGGREGATE ... OVER form, whether the rows came from the primary
\* request or from the fallback
C12_CountUpTo ==
    /\ \A n \in {0, 2} :
          ReturnedFrom(CountUpToSql(n)) => theCursor.rows = << <<IntV(Min(n, Len(store)))>> >>
    /\ ReturnedFrom(AggregateUpToSql) => theCursor.rows = << <<IntV(Min(2, Len(store)))>> >>

\* COUNT_UP_TO(2) over more than two entities returned 2
C12_Witness ==
    /\ ReturnedFrom(CountUpToSql(2))
    /\ Len(store) > 2
    /\ theCursor.rows = << <<IntV(2)>> >>

(***************************************************************************)
(* Functions called on their own, on arguments drawn from bounded sets     *)
(***************************************************************************)
\* the most rows given to _compute_aggregations
MaxAggRows == 3

NValue == <<"v">>

NOther == <<"w">>

\* what a column of a schemaless kind may hold in a row: an Integer, a
\* Double, Null (also the value of an absent property), a String, a Bool
ColumnValues == {IntV(1), IntV(2), FloatV(15), NoneV, StrV(<<"a">>), BoolV(TRUE)}

RECURSIVE SeqsUpTo(_, _)
SeqsUpTo(S, n) ==
    IF n = 0 THEN {<<>>}
    ELSE LET shorter == SeqsUpTo(S, n - 1)
         IN  shorter \cup {Append(q, x) : q \in {r \in shorter : Len(r) = n - 1}, x \in S}

Agg(fn, col) == [fn |-> fn, col |-> col, alias |-> fn]

\* rows of one column v with SUM(v), AVG(v), and with SUM(w), AVG(w) over a
\* column the rows do not have
AggInputs ==
    {[fn |-> "compute_aggregations",
      rows |-> [i \in DOMAIN column |-> <<column[i]>>],
      fields |-> <<NValue>>,
      aggs |-> <<Agg(SUM, col), Agg(AVG, col)>>] :
        column \in SeqsUpTo(ColumnValues, MaxAggRows), col \in {NValue, NOther}}

\* a function called once on the arguments
Called(fn, out) ==
    /\ fnRes = NotCalled
    /\ fnArgs.fn = fn
    /\ fnRes' = [fn |-> fn, out |-> out]
    /\ UNCHANGED <<store, cursorVars, evalVars, dmlVars, fnArgs, otherCursor>>

\* Cursor._compute_aggregations(rows, fields, agg_functions)
ComputeAggregationsCall ==
    Called("compute_aggregations",
           ComputeAggregations(fnArgs.rows, fnArgs.fields, fnArgs.aggs))

\* the Integer and Double values of the column v of the rows given
IntegersAndDoubles ==
    SelectSeq([i \in DOMAIN fnArgs.rows |-> fnArgs.rows[i][1]],
              LAMBDA v : v.t \in {"int", "float"})

\* C13: SUM(v) is the sum and AVG(v) the mean of the Integer and Double
\* values of the column alone: a Null, a String or a Bool adds nothing to
\* the sum and nothing to the divisor
C13_NumericOnly ==
    (/\ fnRes.fn = "compute_aggregations"
     /\ fnArgs.aggs[1].col = NValue
     /\ IntegersAndDoubles # <<>>)
        => /\ fnRes.out.rows[1][1] = PySum(IntegersAndDoubles)
           /\ fnRes.out.rows[1][2]
                = FloatV(SumTenths(IntegersAndDoubles) \div Len(IntegersAndDoubles))

(***************************************************************************)
(* DISTINCT and DISTINCT ON                                                *)
(***************************************************************************)
\* how many times each row is in the rows
RowBag(rows) == [r \in {rows[i] : i \in DOMAIN rows} |->
                    Cardinality({i \in DOMAIN rows : rows[i] = r})]

\* what execute makes of the statement on a new cursor, for the answers the
\* last execute got and the kind as it is
SameAnswers(sql) ==
    Executed[FirstIndex(Statements, sql),
             sentRequests[1].status,
             IF Len(sentRequests) > 1 THEN sentRequests[2].status ELSE 200,
             Len(store)]

\* C14: SELECT DISTINCT ON (tag) tag FROM users returns the rows that
\* SELECT DISTINCT tag FROM users returns on the same kind with the same
\* answers of the remote service, each row as many times
C14_DistinctOnAsDistinct ==
    ReturnedFrom(DistinctOnSql)
        => /\ SameAnswers(DistinctSql).outcome = "ok"
           /\ RowBag(theCursor.rows) = RowBag(SameAnswers(DistinctSql).cur.rows)

(***************************************************************************)
(* Rows and field descriptors                                              *)
(***************************************************************************)
\* how many entries cursor.description has (None has none)
DescriptionEntries(cur) == IF cur.description.set THEN Len(cur.description.names) ELSE 0

\* every row the cursor has still to deliver has one value per entry of the
\* description
Aligned(cur) == \A i \in DOMAIN cur.rows : Len(cur.rows[i]) = DescriptionEntries(cur)

\* C16: when execute returns normally from a row-returning statement, every
\* row of the result has exactly as many values as cursor.description has
\* entries, also when the SELECT list repeats a column, names a column no
\* entity has, or two aggregates share an alias
C16_RowsAligned ==
    (lastCall = "execute" /\ stmt # 0 /\ lastOutcome = "ok") => Aligned(theCursor)

(***************************************************************************)
(* ParseEntity.parse with selected_columns                                 *)
(***************************************************************************)
\* the most columns selected
MaxSelected == 2

\* the most entities given to ParseEntity.parse
MaxParsed == 2

KEY_COLUMN == <<"_","_","k","e","y","_","_">>

\* entities of a kind without a schema: every second one has no tag
Sparse(i) ==
    [id |-> i,
     props |-> IF i % 2 = 0 THEN (NAge :> WInt(10))
               ELSE (NAge :> WInt(30)) @@ (NTag :> WStr(<<"a">>))]

SelectableColumns == {NAge, NTag, KEY_COLUMN, KEY_FIELD, ID, NOther}

ParseInputs ==
    {[fn |-> "parse", data |-> [i \in 1..n |-> Sparse(i)], selected |-> selected] :
        n \in 0..MaxParsed,
        selected \in SeqsUpTo(SelectableColumns, MaxSelected) \ {<<>>}}

\* ParseEntity.parse(data, selected_columns)
ParseCall == Called("parse", ParseEntity(fnArgs.data, fnArgs.selected))

\* the column is a request for the key
RequestsKey(c) == c \in {KEY_COLUMN, KEY_FIELD, ID}

NoColumnTwice(columns) ==
    \A i, j \in DOMAIN columns :
        i # j => columns[i] # columns[j] /\ ~(RequestsKey(columns[i]) /\ RequestsKey(columns[j]))

\* the value of the requested column c of the entity e
Requested(e, c) ==
    IF RequestsKey(c) THEN KeyV(e.id)
    ELSE IF c \in DOMAIN e.props THEN ParseProperties(e.props[c])
    ELSE NoneV

\* C15: given selected columns, none twice, parse returns one field for each
\* requested column in the requested order, the key where __key__, key or id
\* was requested, and each row holds the entity's value of each requested
\* column at its position, Null for a property the entity lacks
C15_SelectedColumns ==
    (fnRes.fn = "parse" /\ NoColumnTwice(fnArgs.selected))
        => /\ fnRes.out.fields
                = [j \in DOMAIN fnArgs.selected |->
                      IF RequestsKey(fnArgs.selected[j]) THEN KEY_FIELD
                      ELSE fnArgs.selected[j]]
           /\ fnRes.out.rows
                = [i \in DOMAIN fnArgs.data |->
                      [j \in DOMAIN fnArgs.selected |->
                          Requested(fnArgs.data[i], fnArgs.selected[j])]]

(***************************************************************************)
(* DATETIME literals with fractional seconds                               *)
(***************************************************************************)
\* the most digits of a fraction
MaxFraction == 7

FractionDigits == {"0", "4", "9"}

Fractions == SeqsUpTo(FractionDigits, MaxFraction) \ {<<>>}

SECONDS == <<"2","0","2","5","-","0","1","-","0","1","T","0","1",":","0","2",":","0","3">>

\* DATETIME('2025-01-01T01:02:03.<fraction><zone>')
DatetimeLiteral(fraction, zone) ==
    <<"D","A","T","E","T","I","M","E","(","'">> \o SECONDS \o <<".">> \o fraction \o zone
    \o <<"'",")">>

LiteralInputs ==
    {[fn |-> "parse_literal", fraction |-> fraction, zone |-> zone,
      literal |-> DatetimeLiteral(fraction, zone)] :
        fraction \in Fractions, zone \in {<<>>, <<"Z">>}}

\* Cursor._parse_literal(literal)
ParseLiteralCall == Called("parse_literal", ParseLiteral(fnArgs.literal))

RECURSIVE TenTo(_)
TenTo(k) == IF k = 0 THEN 1 ELSE 10 * TenTo(k - 1)

\* the microseconds of a fraction: its first six digits read as a number,
\* scaled by ten for each digit short of six
Microseconds(fraction) ==
    IF Len(fraction) >= 6 THEN DigitsVal(SubSeq(fraction, 1, 6))
    ELSE DigitsVal(fraction) * TenTo(6 - Len(fraction))

Parsed(fraction, microsecond) ==
    (fnRes.fn = "parse_literal" /\ fnArgs.fraction = fraction)
        => fnRes.out.t = "datetime" /\ fnRes.out.n = microsecond

\* C17: a DATETIME literal decodes to the second written and the microsecond
\* of the first six digits of its fraction, a shorter fraction padded with
\* zeros on the right, a longer one truncated and never rounded: .000004 is
\* microsecond 4, .4 is 400000, .00004 is 40 and .0000049 is 4
C17_FractionSixDigits ==
    /\ fnRes.fn = "parse_literal"
          => fnRes.out = [t |-> "datetime", n |-> Microseconds(fnArgs.fraction),
                          s |-> SECONDS \o (IF fnArgs.zone = <<>> THEN <<>>
                                            ELSE <<"+","0","0",":","0","0">>)]
    /\ Parsed(<<"0","0","0","0","0","4">>, 4)
    /\ Parsed(<<"4">>, 400000)
    /\ Parsed(<<"0","0","0","0","4">>, 40)
    /\ Parsed(<<"0","0","0","0","0","4","9">>, 4)

\* a fraction of seven digits whose seventh would round the sixth up is decoded
C17_Witness ==
    /\ fnRes.fn = "parse_literal"
    /\ fnArgs.fraction = <<"0","0","0","0","0","4","9">>
    /\ fnRes.out.n = 4

(***************************************************************************)
(* One cursor used for queries and for INSERT, UPDATE and DELETE, then     *)
(* closed and used again                                                   *)
(***************************************************************************)
\* the queries given to the cursor: a SELECT *, an aggregation, a derived table
UsedQueries == {AllSql, CountOrSql, DerivedSql}

\* the INSERT, UPDATE and DELETE statements given to the cursor: those that
\* bind the key of the entity with a parameter
UsedCalls ==
    {call \in Inserts \cup Updates \cup Deletes :
        /\ call.parameters = BoundParameters
        /\ call.parsed.where \in {NoWhere, PlaceholderKeyWhere}}

ExecuteUsedQuery ==
    \E i \in 1..Len(CoreStatements), s1 \in Statuses, s2 \in Statuses :
        CoreStatements[i] \in UsedQueries /\ Execute(i, s1, s2)

ExecuteUsedStatement == \E call \in UsedCalls : ExecuteStatement(call, 1)

NextUse ==
    \/ ExecuteUsedQuery
    \/ ExecuteUsedStatement
    \/ FetchOne
    \/ FetchMany
    \/ FetchAll
    \/ Close

SpecUse == InitDml /\ [][NextUse]_vars

\* a call of execute, fetchone, fetchmany or fetchall on the cursor
CallOnCursor == lastCall' \in {"execute", "fetchone", "fetchmany", "fetchall"}

\* the call sent no request and made no call on the datastore client:
\* sentRequests and clientCalls hold what the last execute of a query and of
\* an INSERT, UPDATE or DELETE (stmt = 0) sent, and a fetch leaves both alone
NothingSent ==
    IF lastCall' # "execute" THEN UNCHANGED <<sentRequests, clientCalls>>
    ELSE /\ sentRequests' = <<>>
         /\ IF stmt' = 0 THEN clientCalls' = <<>> ELSE UNCHANGED clientCalls

\* C18: once the cursor is closed every call of execute, fetchone, fetchmany
\* or fetchall raises Error, sends no remote request, makes no call on the
\* datastore client, leaves the store as it was and delivers no row, and
\* the cursor stays closed whatever is called on it
C18_ClosedIsAbsorbing ==
    [][theCursor.closed
          => /\ theCursor'.closed
             /\ store' = store
             /\ CallOnCursor
                   => /\ lastOutcome' = "Error"
                      /\ NothingSent
                      /\ fetched' = <<>>
                      /\ theCursor' = theCursor]_vars

\* a cursor that returned rows, was closed and then asked to execute again
C18_Witness ==
    /\ theCursor.closed
    /\ theCursor.rows # <<>>
    /\ lastCall = "execute"
    /\ lastOutcome = "Error"
    /\ Len(store) > 0

(***************************************************************************)
(* Fetching the result                                                     *)
(***************************************************************************)
FetchNames == {"fetchone", "fetchmany", "fetchall"}

\* what the statement just executed returns on a new cursor for the answers
\* the remote service gave
ResultOf ==
    Executed[stmt,
             IF Len(sentRequests) > 0 THEN sentRequests[1].status ELSE 200,
             IF Len(sentRequests) > 1 THEN sentRequests[2].status ELSE 200,
             Len(store)].cur.rows

\* a fetch on an open cursor that holds a result
FetchStep == lastCall' \in FetchNames /\ ~theCursor.closed /\ theCursor.iter

\* C19: when execute returns, nothing is delivered and the whole result of
\* the statement is still to come; from then on every fetch returns the next
\* min(k, remaining) rows in result order (k = 1 for fetchone, everything for
\* fetchall), so that the rows delivered so far followed by the rows still
\* to come are always the result, no row twice and none skipped; on an
\* exhausted result every fetch returns no row and raises nothing
C19_ForwardOnly ==
    /\ []((lastCall = "execute" /\ lastOutcome = "ok" /\ stmt # 0)
             => (delivered = <<>> /\ theCursor.rows = ResultOf))
    /\ [][FetchStep
             => /\ lastOutcome' = "ok"
                /\ fetched' = SubSeq(theCursor.rows, 1, Min(asked', Len(theCursor.rows)))
                /\ delivered' = delivered \o fetched'
                /\ delivered' \o theCursor'.rows = delivered \o theCursor.rows
                /\ lastCall' = "fetchone" => asked' = 1
                /\ lastCall' = "fetchall" => theCursor'.rows = <<>>
                /\ theCursor.rows = <<>> => fetched' = <<>>]_vars

\* a result of three rows fetched two at a time: the second fetchmany(2)
\* returned the one row that remained
C19_Witness ==
    /\ lastCall = "fetchmany"
    /\ asked = 2
    /\ Len(fetched) = 1
    /\ Len(delivered) = 3
    /\ theCursor.rows = <<>>
    /\ lastOutcome = "ok"

(***************************************************************************)
(* Subqueries in subqueries                                                *)
(***************************************************************************)
\* C20: execute of a statement with a subquery in its subquery, on an open
\* cursor, raises ProgrammingError and sends no request to the remote service
C20_NestedRejected ==
    (/\ lastCall = "execute"
     /\ stmt # 0
     /\ Statements[IF stmt = 0 THEN 1 ELSE stmt] = NestedSql
     /\ ~theCursor.closed)
        => /\ lastOutcome = "ProgrammingError"
           /\ sentRequests = <<>>

(***************************************************************************)
(* Two cursors of one connection.  Connection.cursor returns Cursor(self): *)
(* each cursor holds its own rowcount, rows, description, warnings and     *)
(* closed flag, and both reach the one datastore through the client of the *)
(* connection.  The calls on the second cursor are recorded in lastCall    *)
(* under the names of OtherCalls.                                          *)
(***************************************************************************)
OtherCalls == {"other.execute", "other.fetch", "other.close"}

\* the queries and the statements given to either cursor
TwoQueries == {AllSql}

TwoCalls == {call \in UsedCalls : call.parsed.node = "Delete"}

\* the cursor Cursor.execute leaves, res being what the executor makes of a
\* new cursor
Executing(cur, res) ==
    IF cur.closed THEN cur
    ELSE IF res.outcome = "ok"
    THEN [res.cur EXCEPT !.warnings = cur.warnings \o @, !.lastrowid = cur.lastrowid]
    ELSE [cur EXCEPT !.warnings = @ \o res.cur.warnings]

\* the cursor a fetch of size rows leaves
Fetching(cur, size) ==
    IF cur.closed \/ ~cur.iter THEN cur
    ELSE [cur EXCEPT !.rows = SubSeq(@, Min(size, Len(@)) + 1, Len(@))]

\* a call on the second cursor: nothing recorded about the first changes
OnOther(name) ==
    /\ lastCall' = name
    /\ UNCHANGED <<theCursor, stmt, sentRequests, lastOutcome, appended, fetched, asked,
                   delivered, evalVars, fnVars, dml, before, clientCalls>>

\* execute of a query on the first cursor; a fallback request is answered 200
ExecuteFirst ==
    \E i \in 1..Len(CoreStatements), s1 \in Statuses :
        CoreStatements[i] \in TwoQueries /\ Execute(i, s1, 200)

ExecuteFirstStatement == \E call \in TwoCalls : ExecuteStatement(call, 1)

\* execute of a query on the second cursor; a fallback request is answered 200
ExecuteOther ==
    \E i \in 1..Len(CoreStatements), s1 \in Statuses :
        /\ CoreStatements[i] \in TwoQueries
        /\ store = KindOf(Len(store))
        /\ Len(otherCursor.warnings) + 2 <= MaxWarnings
        /\ otherCursor' = Executing(otherCursor, Executed[i, s1, 200, Len(store)])
        /\ OnOther("other.execute")
        /\ UNCHANGED <<store, dmlCount>>

\* execute of a DELETE on the second cursor
ExecuteOtherStatement ==
    \E call \in TwoCalls :
        LET Run(r) == store' = r.entities /\ otherCursor' = r.cur
        IN  /\ dmlCount < MaxDml
            /\ dmlCount' = dmlCount + 1
            /\ Run(ExecuteDml(otherCursor, call.parsed, call.parameters, store, 1))
            /\ OnOther("other.execute")

\* fetchone, fetchmany or fetchall on the second cursor
FetchOther ==
    \E size \in 1..MaxFetch :
        /\ otherCursor' = Fetching(otherCursor, size)
        /\ OnOther("other.fetch")
        /\ UNCHANGED <<store, dmlCount>>

\* the mutation of close that closes every cursor of the connection
CloseConnection ==
    /\ otherCursor' = [otherCursor EXCEPT !.closed = TRUE]
    /\ theCursor' = [theCursor EXCEPT !.closed = TRUE]
    /\ lastCall' = "other.close"
    /\ UNCHANGED <<store, stmt, sentRequests, lastOutcome, appended, fetched, asked,
                   delivered, evalVars, fnVars, dmlVars>>

\* close on the second cursor
CloseOther ==
    /\ otherCursor' = [otherCursor EXCEPT !.closed = TRUE]
    /\ OnOther("other.close")
    /\ UNCHANGED <<store, dmlCount>>

\* the kind is full, neither cursor has been used
InitTwo ==
    /\ store = KindOf(MaxEntities)
    /\ IdleCursor
    /\ IdleEval
    /\ IdleDml
    /\ IdleFn

NextTwo ==
    \/ ExecuteFirst
    \/ ExecuteFirstStatement
    \/ FetchMany
    \/ Close
    \/ ExecuteOther
    \/ ExecuteOtherStatement
    \/ FetchOther
    \/ CloseOther

SpecTwo == InitTwo /\ [][NextTwo]_vars

\* what a statement owns: pending rows, description, rowcount, warnings and
\* the closed flag
Owned(cur) ==
    [rows |-> cur.rows, description |-> cur.description, rowcount |-> cur.rowcount,
     warnings |-> cur.warnings, closed |-> cur.closed]

\* C21: a call on one cursor leaves the pending rows, the description, the
\* rowcount, the warnings and the closed flag of the other cursor of the
\* connection as they were, whatever the call and whatever it did to the
\* datastore
C21_CursorsShareNothing ==
    [][/\ lastCall' \in OtherCalls => Owned(theCursor') = Owned(theCursor)
       /\ lastCall' \notin OtherCalls => Owned(otherCursor') = Owned(otherCursor)]_vars

\* the first cursor still holds the three rows it read while the second has
\* deleted an entity and closed
C21_Witness ==
    /\ Len(theCursor.rows) = 3
    /\ Len(store) = 2
    /\ otherCursor.closed
    /\ ~theCursor.closed
    /\ lastCall = "other.close"

(***************************************************************************)
(* Reference reading of a SELECT with WHERE, ORDER BY, LIMIT, OFFSET and a *)
(* list of columns, over the entities of the kind                          *)
(***************************************************************************)
\* the entities in the order of the numbers of the property col, an entity
\* that comes earlier in the kind first among equals
RECURSIVE SortedBy(_, _, _)
SortedBy(ents, col, asc) ==
    IF ents = <<>> THEN <<>>
    ELSE LET Before(a, b) == IF asc THEN Prop(a, col).n < Prop(b, col).n
                             ELSE Prop(a, col).n > Prop(b, col).n
             first == CHOOSE i \in DOMAIN ents :
                         /\ \A j \in DOMAIN ents : ~Before(ents[j], ents[i])
                         /\ \A j \in 1..(i - 1) : Before(ents[i], ents[j])
         IN  <<ents[first]>>
             \o SortedBy([j \in 1..(Len(ents) - 1) |->
                             IF j < first THEN ents[j] ELSE ents[j + 1]], col, asc)

\* rows offset + 1 .. offset + limit of the entities (limit < 0: no limit)
Page(ents, limit, offset) ==
    SubSeq(ents, offset + 1,
           IF limit < 0 THEN Len(ents) ELSE Min(offset + limit, Len(ents)))

\* the entities as rows of the columns; no columns stands for *
RowsOf(ents, cols) ==
    IF cols = <<>> THEN ParseEntity(ents, <<>>).rows
    ELSE [i \in DOMAIN ents |->
             [j \in DOMAIN cols |->
                 IF cols[j] = ID THEN KeyV(ents[i].id) ELSE Prop(ents[i], cols[j])]]

OlderThan20(ents) == SelectSeq(ents, LAMBDA e : Prop(e, NAge) = IntV(Prop(e, NAge).n)
                                                  /\ Prop(e, NAge).n > 20)

\* execute has just returned normally from the statement after the primary
\* request failed and the fallback request was answered
FellBackFrom(sql) ==
    /\ ReturnedFrom(sql)
    /\ Len(sentRequests) = 2
    /\ sentRequests[1].status # 200
    /\ sentRequests[2].status = 200

\* C22: after a fallback the rows are those of the reference reading of the
\* statement over every entity of the kind: filter by WHERE, sort by ORDER
\* BY, skip OFFSET, keep LIMIT, project to the selected columns with id as
\* the key; and rowcount is the number of rows
C22_FallbackPipeline ==
    /\ FellBackFrom(SortedPageSql)
          => theCursor.rows = RowsOf(Page(SortedBy(OlderThan20(store), NAge, TRUE), 1, 1), <<>>)
    /\ FellBackFrom(SortedKeysSql)
          => theCursor.rows = RowsOf(SortedBy(OlderThan20(store), NAge, TRUE), <<NTag, ID>>)
    /\ FellBackFrom(TopFloorsSql)
          => theCursor.rows = RowsOf(Page(SortedBy(store, NAge, FALSE), 2, 0), <<NFloor>>)
    /\ FellBackFrom(KeyEqualSql)
          => theCursor.rows = RowsOf(SelectSeq(store, LAMBDA e : e.id = 2), <<>>)
    /\ \A i \in DOMAIN PipelineStatements :
          FellBackFrom(PipelineStatements[i]) => theCursor.rowcount = Len(theCursor.rows)

(***************************************************************************)
(* Reference reading of a derived-table query with GROUP BY tag: one row   *)
(* per tag of the kind, each aggregate taken over the entities of the tag  *)
(***************************************************************************)
\* the entities of the kind whose tag is the given value
TaggedAs(tag) == SelectSeq(store, LAMBDA e : Prop(e, NTag) = tag)

\* the largest age among the entities
OldestAge(ents) ==
    Prop(ents[CHOOSE i \in DOMAIN ents : \A j \in DOMAIN ents : Prop(ents[i], NAge).n >= Prop(ents[j], NAge).n],
         NAge)

\* one row per tag of the kind: the tag, then the columns computed over the
\* entities of that tag
GroupRows(Columns(_)) ==
    {<<Prop(store[i], NTag)>> \o Columns(TaggedAs(Prop(store[i], NTag))) : i \in DOMAIN store}

\* the statement was executed and the subquery SELECT * FROM users answered
\* 200, so that execute had the rows of the derived table and either
\* returned or raised the KeyError of a column missing from its frame
Grouped(sql) ==
    /\ lastCall = "execute"
    /\ stmt \in DOMAIN Statements
    /\ Statements[stmt] = sql
    /\ sentRequests # <<>>
    /\ sentRequests[Len(sentRequests)].status = 200
    /\ store # <<>>

\* the rows of the cursor are the rows given, each once, and execute returned
HoldsRows(rows) ==
    /\ lastOutcome = "ok"
    /\ {theCursor.rows[i] : i \in DOMAIN theCursor.rows} = rows
    /\ Len(theCursor.rows) = Cardinality(rows)

\* C24: a derived-table query with GROUP BY tag returns one row per tag of
\* the kind, and each aggregate column holds its function over the entities
\* of the tag: MAX(age) the largest age, COUNT(*) the number of entities,
\* also when both are listed
C24_GroupedAggregates ==
    /\ Grouped(GroupMaxSql) => HoldsRows(GroupRows(LAMBDA ents : <<OldestAge(ents)>>))
    /\ Grouped(GroupCountSql) => HoldsRows(GroupRows(LAMBDA ents : <<IntV(Len(ents))>>))
    /\ Grouped(GroupMaxCountSql)
          => HoldsRows(GroupRows(LAMBDA ents : <<OldestAge(ents), IntV(Len(ents))>>))
    /\ Grouped(GroupCountMaxSql)
          => HoldsRows(GroupRows(LAMBDA ents : <<IntV(Len(ents)), OldestAge(ents)>>))

(***************************************************************************)
(* Cursor._apply_client_side_order_by on its own.  A row is (v, u, p):     *)
(* two columns to order by and the place the row has in the input.         *)
(***************************************************************************)
\* the most rows given to _apply_client_side_order_by
MaxOrderRows == 3

NPlace == <<"p">>

NSecond == <<"u">>

\* what the column v holds: Integers, Null, a String
OrderValues == {IntV(1), IntV(2), NoneV, StrV(<<"a">>)}

OrderRows ==
    {[i \in DOMAIN column |-> <<column[i][1], column[i][2], IntV(i)>>] :
        column \in SeqsUpTo(OrderValues \X {IntV(1), IntV(2)}, MaxOrderRows)}

OrderInputs ==
    {[fn |-> "apply_client_side_order_by", rows |-> rows,
      fields |-> <<NValue, NSecond, NPlace>>,
      keys |-> <<[col |-> NValue, asc |-> a1], [col |-> NSecond, asc |-> a2]>>] :
        rows \in OrderRows, a1 \in BOOLEAN, a2 \in BOOLEAN}

\* Cursor._apply_client_side_order_by(rows, fields, order_keys)
ApplyClientSideOrderByCall ==
    Called("apply_client_side_order_by",
           ApplyClientSideOrderBy(fnArgs.rows, fnArgs.fields, fnArgs.keys))

\* where the value a stands with respect to b under one ORDER BY key: Null
\* after everything else in both directions, numbers by their value, texts
\* by their characters
KeyOrder(a, b, asc) ==
    IF a = NoneV /\ b = NoneV THEN "tie"
    ELSE IF a = NoneV THEN "after"
    ELSE IF b = NoneV THEN "before"
    ELSE IF PyCmp(a, b) = "lt" THEN (IF asc THEN "before" ELSE "after")
    ELSE IF PyCmp(a, b) = "gt" THEN (IF asc THEN "after" ELSE "before")
    ELSE "tie"

\* where the row a stands with respect to the row b under the ORDER BY keys
\* (v, u), the first key that does not tie deciding
RowOrder(a, b, keys) ==
    IF KeyOrder(a[1], b[1], keys[1].asc) # "tie" THEN KeyOrder(a[1], b[1], keys[1].asc)
    ELSE KeyOrder(a[2], b[2], keys[2].asc)

\* C23: the result holds every input row once; no row stands before a row
\* that the ORDER BY keys put before it; rows that tie on every key stand in
\* their input order
C23_SortedStable ==
    fnRes.fn = "apply_client_side_order_by"
        => /\ Len(fnRes.out) = Len(fnArgs.rows)
           /\ \A i \in DOMAIN fnArgs.rows : \E j \in DOMAIN fnRes.out : fnRes.out[j] = fnArgs.rows[i]
           /\ \A i, j \in DOMAIN fnRes.out :
                 i < j => /\ RowOrder(fnRes.out[i], fnRes.out[j], fnArgs.keys) # "after"
                          /\ RowOrder(fnRes.out[i], fnRes.out[j], fnArgs.keys) = "tie"
                                => fnRes.out[i][3].n < fnRes.out[j][3].n

(***************************************************************************)
(* Cursor._extract_agg_functions on its own: a clause of aggregates        *)
(* written one after the other, separated by commas.                       *)
(***************************************************************************)
\* the most aggregates written in one clause
MaxWritten == 2

\* the aggregates a clause is written from: with and without an alias
WrittenAggs ==
    {Agg(COUNT, <<"*">>), [Agg(COUNT, <<"*">>) EXCEPT !.alias = <<"c">>],
     Agg(COUNT_UP_TO, <<"5">>),
     Agg(SUM, NAge), [Agg(SUM, NAge) EXCEPT !.alias = <<"s">>],
     Agg(AVG, NAge)}

\* FN(col) or FN(col) AS alias
WrittenText(agg) ==
    agg.fn \o <<"(">> \o agg.col \o <<")">>
    \o (IF agg.alias = agg.fn THEN <<>> ELSE <<" ","A","S"," ">> \o agg.alias)

RECURSIVE WrittenClause(_)
WrittenClause(aggs) ==
    IF aggs = <<>> THEN <<>>
    ELSE IF Len(aggs) = 1 THEN WrittenText(aggs[1])
    ELSE WrittenText(aggs[1]) \o <<",", " ">> \o WrittenClause(Tail(aggs))

ExtractInputs ==
    {[fn |-> "extract_agg_functions", written |-> written, clause |-> WrittenClause(written)] :
        written \in SeqsUpTo(WrittenAggs, MaxWritten) \ {<<>>}}

\* Cursor._extract_agg_functions(clause)
ExtractAggFunctionsCall ==
    Called("extract_agg_functions", ExtractAggFunctions(fnArgs.clause))

\* C25: the functions extracted from a clause are the functions written in
\* it, in the order they are written, each with its alias or, without one,
\* with the name of the function
C25_StatementOrder ==
    fnRes.fn = "extract_agg_functions" => fnRes.out = fnArgs.written

(***************************************************************************)
(* Cursor._convert_sql_to_gql on its own: a WHERE clause of two equalities *)
(* on the primary key.                                                     *)
(***************************************************************************)
\* the largest key id written in a statement
MaxKeyId == 12

ID_EQ == <<"i","d"," ","="," ">>

\* SELECT * FROM users WHERE id = a OR id = b, and with AND
TwoKeysSql(first, word, second) ==
    SELECT_STAR_FROM \o Kind \o WHERE_ \o ID_EQ \o NatText(first)
    \o <<" ">> \o word \o <<" ">> \o ID_EQ \o NatText(second)

ConvertInputs ==
    {[fn |-> "convert_sql_to_gql", first |-> first, second |-> second, word |-> word,
      statement |-> TwoKeysSql(first, word, second)] :
        first \in 1..MaxKeyId, second \in 1..MaxKeyId, word \in {OR, AND}}

\* Cursor._convert_sql_to_gql(statement)
ConvertSqlToGqlCall == Called("convert_sql_to_gql", ConvertSqlToGql(fnArgs.statement))

\* C26: each of the two key equalities of the WHERE clause is translated
\* to the key literal of its own id
C26_EachKeyItsOwnValue ==
    fnRes.fn = "convert_sql_to_gql"
        => fnRes.out = SELECT_STAR_FROM \o Kind \o WHERE_
                       \o KeyLiteral(Kind, NatText(fnArgs.first))
                       \o <<" ">> \o fnArgs.word \o <<" ">>
                       \o KeyLiteral(Kind, NatText(fnArgs.second))

(***************************************************************************)
(* Cursor._split_on_operator on its own: two comparisons joined by the     *)
(* operator, the first one on a column or in parentheses.                  *)
(***************************************************************************)
EQ_1 == <<" ","="," ","1">>

X_EQ_2 == <<"x"," ","="," ","2">>

\* the left operands: comparisons on columns whose names hold the letters
\* of an operator, and a parenthesised condition that holds the operator
LeftOperands(op) ==
    {<<"b","r","a","n","d">> \o EQ_1, <<"c","o","l","o","r">> \o EQ_1,
     <<"a","n","d","r","o","i","d">> \o EQ_1, <<"x">> \o EQ_1,
     <<"(","a">> \o EQ_1 \o <<" ">> \o op \o <<" ","b">> \o EQ_1 \o <<")">>}

SplitInputs ==
    {[fn |-> "split_on_operator", op |-> op, left |-> left,
      condition |-> left \o <<" ">> \o op \o <<" ">> \o X_EQ_2] :
        op \in {AND, OR}, left \in LeftOperands(AND) \cup LeftOperands(OR)}

\* Cursor._split_on_operator(condition, operator)
SplitOnOperatorCall ==
    Called("split_on_operator", SplitOnOperator(fnArgs.condition, fnArgs.op))

\* the operator stands as a whole word outside parentheses in the text
WholeWordOutside(txt, op) ==
    \E i \in WordStarts(txt, op) :
        /\ i + Len(op) > Len(txt) \/ ~IsWordChar(txt[i + Len(op)])
        /\ Cardinality({j \in 1..i : txt[j] = "("}) = Cardinality({j \in 1..i : txt[j] = ")"})

\* C27: a condition whose only whole-word operator outside parentheses
\* stands between its two operands is split into exactly these two
C27_SplitsAtWholeWords ==
    (fnRes.fn = "split_on_operator" /\ ~WholeWordOutside(fnArgs.left, fnArgs.op))
        => fnRes.out = <<fnArgs.left, X_EQ_2>>

(***************************************************************************)
(* Cursor._substitute_parameters: the parameters are the items of the      *)
(* dict in its iteration order, each [name, value].                        *)
(***************************************************************************)
\* str.replace(old, new) from index i on: the occurrences from left to
\* right, not overlapping
RECURSIVE ReplaceText(_, _, _, _)
ReplaceText(s, i, old, new) ==
    IF i > Len(s) THEN <<>>
    ELSE IF TextAt(s, i, old) THEN new \o ReplaceText(s, i + Len(old), old, new)
    ELSE <<s[i]>> \o ReplaceText(s, i + 1, old, new)

\* the value formatted for GQL: NULL, a quoted text with its quotes doubled,
\* true or false, the decimal text of a number
FormatValue(value) ==
    IF value = NoneV THEN <<"N","U","L","L">>
    ELSE IF value.t = "str"
    THEN <<"'">> \o ReplaceText(value.s, 1, <<"'">>, <<"'", "'">>) \o <<"'">>
    ELSE IF value.t = "bool"
    THEN (IF value.n = 1 THEN <<"t","r","u","e">> ELSE <<"f","a","l","s","e">>)
    ELSE IF value.t = "int" THEN NatText(value.n)
    ELSE NatText(value.n \div 10) \o <<".">> \o NatText(value.n % 10)

RECURSIVE SubstituteParameters(_, _)
SubstituteParameters(statement, parameters) ==
    IF parameters = <<>> THEN statement
    ELSE SubstituteParameters(
             ReplaceText(statement, 1, <<":">> \o parameters[1].name,
                         FormatValue(parameters[1].value)),
             Tail(parameters))

ParameterNames == {<<"a","g","e","_","1">>, <<"a","g","e","_","1","0">>, <<"t","a","g">>}

ParameterValues == {IntV(5), IntV(7), StrV(<<"a">>), NoneV, BoolV(TRUE), FloatV(25)}

\* age = <first> AND b = <second>
TwoOperands(first, second) ==
    <<"a","g","e"," ","="," ">> \o first \o <<" ","A","N","D"," ","b"," ","="," ">> \o second

\* a statement with the placeholders of two parameters of different names,
\* and the dict of the two in one of its two orders
SubstituteInputs ==
    {[fn |-> "substitute_parameters",
      statement |-> TwoOperands(<<":">> \o ps[1].name, <<":">> \o ps[2].name),
      written |-> ps,
      parameters |-> IF swapped THEN <<ps[2], ps[1]>> ELSE ps] :
        ps \in {q \in [1..2 -> [name : ParameterNames, value : ParameterValues]] :
                   q[1].name # q[2].name},
        swapped \in BOOLEAN}

\* Cursor._substitute_parameters(statement, parameters)
SubstituteParametersCall ==
    Called("substitute_parameters", SubstituteParameters(fnArgs.statement, fnArgs.parameters))

\* C28: each placeholder is replaced by the formatted value of the
\* parameter of its name, whatever the order of the dict
C28_EachPlaceholderItsValue ==
    fnRes.fn = "substitute_parameters"
        => fnRes.out = TwoOperands(FormatValue(fnArgs.written[1].value),
                                   FormatValue(fnArgs.written[2].value))

(***************************************************************************)
(* The functions called on their own                                       *)
(***************************************************************************)
FnInputs == AggInputs \cup ParseInputs \cup LiteralInputs \cup OrderInputs
            \cup ExtractInputs \cup ConvertInputs
            \cup SplitInputs \cup SubstituteInputs

InitFn ==
    /\ store = <<>>
    /\ IdleCursor
    /\ IdleEval
    /\ IdleDml
    /\ fnArgs \in FnInputs
    /\ fnRes = NotCalled

NextFn ==
    \/ ComputeAggregationsCall
    \/ ParseCall
    \/ ParseLiteralCall
    \/ ApplyClientSideOrderByCall
    \/ ExtractAggFunctionsCall
    \/ ConvertSqlToGqlCall
    \/ SplitOnOperatorCall
    \/ SubstituteParametersCall

SpecFn == InitFn /\ [][NextFn]_vars

====
